---- MODULE Spec2Model ----
(***************************************************************************)
(* Miniproj: the EPSG registry reader (sql.rs), the registry compiler      *)
(* (db.rs), the runtime dispatch (projection_constructor.rs) and the       *)
(* parameter-free projection / custom projection entry points of the       *)
(* projection kernel, as state machines.                                   *)
(*                                                                         *)
(* Conventions                                                             *)
(*   Option<T>   : <<>> is None, <<v>> is Some(v).                         *)
(*   i64 / u32   : Int; u32::try_from is modelled by its range test.       *)
(*   f64         : registry doubles are fixed-point numbers counted in     *)
(*                 tenths (the literal 2.5 is 25, the literal 3 is 30).    *)
(*   panic       : an operation that panics yields ok |-> FALSE / the      *)
(*                 outcome "panic"; the process stops there.               *)
(***************************************************************************)
EXTENDS Integers, Sequences, FiniteSets, TLC

VARIABLES
    db,         \* MemoryDb.tables: table name -> table (or the absent table)
    stmt,       \* the statement of the dump processed last
    nstmts,     \* how many statements of the dump have been processed
    pc,         \* position of the build script / of the reader
    ellipsoids, \* outcome of get_ellipsoids
    gen,        \* outcome of gen_parameter_constructors
    ellsrc,     \* outcome of gen_ellipsoid_constructors
    lookup,     \* the last runtime lookup and its outcome
    call,       \* the last call of a pure kernel function and its outcome
    cache,      \* NET_CACHE: url -> the body stored for it
    mutex,      \* the Mutex around NET_CACHE: its holder (0: free), poisoned or not
    thread,     \* each thread's position in get_cached, and what it returned
    fetched,    \* per url, how many requests for it were answered with a body
    registry,   \* the rows dump_crs_relations reads: operations and CRS
    nodes,      \* recurse_graph's nodes
    edges,      \* recurse_graph's edges
    stack,      \* the calls of recurse_graph in progress, innermost last
    expansions  \* how many calls of recurse_graph have been made

regvars == <<db, stmt, nstmts, pc, ellipsoids, gen, ellsrc, lookup, call>>
netvars == <<cache, mutex, thread, fetched>>
graphvars == <<registry, nodes, edges, stack, expansions>>
vars == <<regvars, netvars, graphvars>>

\* ------------------------------------------------------------------ bounds

\* Statements of the dump the reader processes after the preloaded prefix.
MaxStmts == 2
\* Statements of the dump the reader processes in the reader-only specification.
MaxSqlStmts == 3

\* ---------------------------------------------------------- generic helpers

None == <<>>
Some(v) == <<v>>

Range(s) == {s[i] : i \in DOMAIN s}

Min(a, b) == IF a < b THEN a ELSE b

\* Index of the first element of s equal to x, 0 when there is none
\* (Iterator::enumerate().find()).
RECURSIVE FirstIndexFrom(_, _, _)
FirstIndexFrom(s, x, i) ==
    IF i > Len(s) THEN 0
    ELSE IF s[i] = x THEN i
    ELSE FirstIndexFrom(s, x, i + 1)

FirstIndex(s, x) == FirstIndexFrom(s, x, 1)

\* --------------------------------------------------------- registry reader

\* A table name the store does not hold (HashMap::get returns None).
NoTable == [exists |-> FALSE, column_order |-> <<>>, columns |-> <<>>]

NullExpr == [e |-> "Null", mant |-> 0, dec |-> 0, s |-> ""]
\* The numeric literal mant / 10^dec, written without a sign.
Num(m) == [e |-> "Number", mant |-> m, dec |-> 0, s |-> ""]
Dec(m) == [e |-> "Number", mant |-> m, dec |-> 1, s |-> ""]
Str(t) == [e |-> "String", mant |-> 0, dec |-> 0, s |-> t]
\* Unary minus applied to x: x's fields, tagged.
Neg(x) == [e |-> "Minus", mant |-> x.mant, dec |-> x.dec, s |-> x.e]

\* str::parse::<i64>: only a literal without a fractional part parses.
ParseI64(x) == IF x.dec = 0 THEN Some(x.mant) ELSE None
\* str::parse::<f64>, in tenths.
ParseF64(x) == IF x.dec = 0 THEN x.mant * 10 ELSE x.mant

\* The column a CREATE TABLE column definition makes; <<>> when the type is
\* not supported (panic).
ColumnDataFor(c) ==
    IF c.notnull
    THEN CASE c.type \in {"Real", "Double", "DoublePrecision", "Float"} -> Some("Double")
           [] c.type \in {"Integer", "SmallInt"} -> Some("IntLike")
           [] c.type \in {"Varchar", "Date"} -> Some("StringLike")
           [] OTHER -> None
    ELSE CASE c.type \in {"Real", "Double", "DoublePrecision", "Float"} -> Some("MaybeDouble")
           [] c.type \in {"Varchar", "Date"} -> Some("MaybeStringLike")
           [] c.type \in {"Integer", "SmallInt", "Custom"} -> Some("MaybeIntLike")
           [] OTHER -> None

\* HashMap::from_iter over (name, column): the last definition of a name wins.
LastDefOf(cols, name) ==
    cols[CHOOSE i \in DOMAIN cols :
            /\ cols[i].name = name
            /\ \A j \in DOMAIN cols : cols[j].name = name => j <= i]

CreateTable(d, s) ==
    IF \E i \in DOMAIN s.columns : ColumnDataFor(s.columns[i]) = None
    THEN [ok |-> FALSE, db |-> d]
    ELSE [ok |-> TRUE,
          db |-> [d EXCEPT ![s.table] =
                    [exists |-> TRUE,
                     column_order |-> [i \in DOMAIN s.columns |-> s.columns[i].name],
                     columns |-> [n \in {s.columns[i].name : i \in DOMAIN s.columns} |->
                                    [kind |-> ColumnDataFor(LastDefOf(s.columns, n))[1],
                                     data |-> <<>>]]]]]

\* One arm of the match on (column data, expression): the column with the
\* value pushed, or a panic.
PushValue(col, x) ==
    LET push(v) == [ok |-> TRUE, col |-> [col EXCEPT !.data = Append(@, v)]]
        panic == [ok |-> FALSE, col |-> col]
    IN  CASE col.kind = "MaybeStringLike" /\ x.e = "Null" -> push(None)
          [] col.kind = "MaybeIntLike" /\ x.e = "Null" -> push(None)
          [] col.kind = "MaybeDouble" /\ x.e = "Null" -> push(None)
          [] col.kind = "IntLike" /\ x.e = "Number" ->
                IF ParseI64(x) = None THEN panic ELSE push(ParseI64(x)[1])
          [] col.kind = "MaybeIntLike" /\ x.e = "Number" ->
                IF ParseI64(x) = None THEN panic ELSE push(Some(ParseI64(x)[1]))
          [] col.kind = "StringLike" /\ x.e = "String" -> push(x.s)
          [] col.kind = "MaybeStringLike" /\ x.e = "String" -> push(Some(x.s))
          [] col.kind = "Double" /\ x.e = "Number" -> push(ParseF64(x))
          [] col.kind = "Double" /\ x.e = "Minus" ->
                IF x.s = "Number" THEN push(0 - ParseF64(x)) ELSE panic
          [] col.kind = "MaybeDouble" /\ x.e = "Number" -> push(Some(ParseF64(x)))
          [] col.kind = "MaybeDouble" /\ x.e = "Minus" ->
                IF x.s = "Number" THEN push(Some(0 - ParseF64(x))) ELSE panic
          [] OTHER -> panic

\* The (expression, column name) pairs of one VALUES row, had the column list
\* been ignored and the values assigned by position.
Mapping_ByPosition(t, columns, row) ==
    IF columns = <<>>
    THEN IF Len(row) = Cardinality(DOMAIN t.columns)
         THEN [ok |-> TRUE,
               m |-> [i \in 1..Min(Len(row), Len(t.column_order)) |->
                        [x |-> row[i], name |-> t.column_order[i]]]]
         ELSE [ok |-> FALSE, m |-> <<>>]
    ELSE [ok |-> TRUE,
          m |-> [j \in DOMAIN t.column_order |->
                   [x |-> IF j <= Len(row) THEN row[j] ELSE NullExpr,
                    name |-> t.column_order[j]]]]

\* The (expression, column name) pairs of one VALUES row.
Mapping(t, columns, row) ==
    IF columns = <<>>
    THEN IF Len(row) = Cardinality(DOMAIN t.columns)
         THEN [ok |-> TRUE,
               m |-> [i \in 1..Min(Len(row), Len(t.column_order)) |->
                        [x |-> row[i], name |-> t.column_order[i]]]]
         ELSE [ok |-> FALSE, m |-> <<>>]
    ELSE LET idx(name) == FirstIndex(columns, name)
         IN  IF \E j \in DOMAIN t.column_order :
                    idx(t.column_order[j]) > Len(row)
             THEN [ok |-> FALSE, m |-> <<>>]          \* row[index] out of bounds
             ELSE [ok |-> TRUE,
                   m |-> [j \in DOMAIN t.column_order |->
                            [x |-> IF idx(t.column_order[j]) > 0
                                   THEN row[idx(t.column_order[j])]
                                   ELSE NullExpr,
                             name |-> t.column_order[j]]]]

\* for (expr, col_name) in mapping { push }
RECURSIVE PushMapping(_, _, _)
PushMapping(t, m, i) ==
    IF i > Len(m) THEN [ok |-> TRUE, t |-> t]
    ELSE LET r == PushValue(t.columns[m[i].name], m[i].x)
         IN  IF ~r.ok THEN [ok |-> FALSE, t |-> t]
             ELSE PushMapping([t EXCEPT !.columns[m[i].name] = r.col], m, i + 1)

InsertRow(t, columns, row) ==
    LET mp == Mapping(t, columns, row)
    IN  IF ~mp.ok THEN [ok |-> FALSE, t |-> t] ELSE PushMapping(t, mp.m, 1)

\* for row in &values.rows { ... }
RECURSIVE InsertRows(_, _, _, _)
InsertRows(t, columns, rows, i) ==
    IF i > Len(rows) THEN [ok |-> TRUE, t |-> t]
    ELSE LET r == InsertRow(t, columns, rows[i])
         IN  IF ~r.ok THEN [ok |-> FALSE, t |-> t]
             ELSE InsertRows(r.t, columns, rows, i + 1)

Insert(d, s) ==
    IF ~d[s.table].exists THEN [ok |-> FALSE, db |-> d]   \* get_mut(..).unwrap()
    ELSE LET r == InsertRows(d[s.table], s.columns, s.rows, 1)
         IN  IF r.ok THEN [ok |-> TRUE, db |-> [d EXCEPT ![s.table] = r.t]]
             ELSE [ok |-> FALSE, db |-> d]

\* Statement::Drop, had it left the store as it was.
DropTable_Keep(d, s) == [ok |-> TRUE, db |-> d]

\* Statement::Drop { object_type: Table, if_exists: true, names }:
\* tables.remove(name), which does nothing for a name the store lacks.
DropTable(d, s) == [ok |-> TRUE, db |-> [d EXCEPT ![s.table] = NoTable]]

\* One iteration of `for stmt in &ast`.
Exec(d, s) ==
    CASE s.op = "Insert" -> Insert(d, s)
      [] s.op = "CreateTable" -> CreateTable(d, s)
      [] s.op \in {"StartTransaction", "Commit"} -> [ok |-> TRUE, db |-> d]
      [] s.op = "Drop" -> DropTable(d, s)
      [] OTHER -> [ok |-> TRUE, db |-> d]

\* Column::len and Table::rows (the length of the column the map yields first:
\* any one of them).
ColumnLens(t) == {Len(t.columns[n].data) : n \in DOMAIN t.columns}

\* Table::rows: the length of whichever column the map yields first.
TableRows(t) ==
    IF DOMAIN t.columns = {} THEN 0 ELSE CHOOSE n \in ColumnLens(t) : TRUE

\* Option<Field>: k is the variant ("None" for a missing value), n the number
\* of an IntLike or Double field, s the text of a StringLike field.
NoField == [k |-> "None", n |-> 0, s |-> ""]
IntField(v) == [k |-> "IntLike", n |-> v, s |-> ""]
DoubleField(v) == [k |-> "Double", n |-> v, s |-> ""]
StringField(v) == [k |-> "StringLike", n |-> 0, s |-> v]

\* The match on ColumnData that reads one slot of a row.
FieldAt(col, index) ==
    IF index > Len(col.data) THEN NoField
    ELSE LET v == col.data[index]
         IN  CASE col.kind = "StringLike" -> StringField(v)
               [] col.kind = "MaybeStringLike" ->
                    IF v = None THEN NoField ELSE StringField(v[1])
               [] col.kind = "IntLike" -> IntField(v)
               [] col.kind = "MaybeIntLike" ->
                    IF v = None THEN NoField ELSE IntField(v[1])
               [] col.kind = "Double" -> DoubleField(v)
               [] col.kind = "MaybeDouble" ->
                    IF v = None THEN NoField ELSE DoubleField(v[1])

\* Table::get_rows: Err when a selected column does not exist, else the rows
\* in order, each the selected fields in the order of `select`.
get_rows(t, select) ==
    IF \E i \in DOMAIN select : select[i] \notin DOMAIN t.columns
    THEN [ok |-> FALSE, rows |-> <<>>]
    ELSE [ok |-> TRUE,
          rows |-> [index \in 1..TableRows(t) |->
                      [i \in DOMAIN select |-> FieldAt(t.columns[select[i]], index)]]]

\* Table::get_rows_where_i64, had it returned every row of the table.
get_rows_where_i64_Unfiltered(t, col, val, select) ==
    IF \E i \in DOMAIN select : select[i] \notin DOMAIN t.columns THEN <<>>
    ELSE get_rows(t, select).rows

\* Table::get_rows_where_i64: an empty Vec when a selected column or the
\* filter column does not exist or the filter column is not an integer
\* column; else the rows at the indices where the filter column equals val
\* (a missing value never does), in ascending index order.
get_rows_where_i64(t, col, val, select) ==
    IF \E i \in DOMAIN select : select[i] \notin DOMAIN t.columns THEN <<>>
    ELSE IF col \notin DOMAIN t.columns THEN <<>>
    ELSE IF t.columns[col].kind \notin {"IntLike", "MaybeIntLike"} THEN <<>>
    ELSE
    LET data == t.columns[col].data
        matches(i) == IF t.columns[col].kind = "IntLike" THEN data[i] = val
                      ELSE data[i] # None /\ data[i][1] = val
        indices == SelectSeq([i \in DOMAIN data |-> i], matches)
    IN  [k \in DOMAIN indices |->
            [i \in DOMAIN select |-> FieldAt(t.columns[select[i]], indices[k])]]

\* ------------------------------------------- the reader on a small schema

SqlTables == {"t", "u"}

Col(n, ty, nn) == [name |-> n, type |-> ty, notnull |-> nn]
CreateStmt(tn, cols) ==
    [op |-> "CreateTable", table |-> tn, columns |-> cols, rows |-> <<>>]
InsertStmt(tn, cols, rws) ==
    [op |-> "Insert", table |-> tn, columns |-> cols, rows |-> rws]
DropStmt(tn) == [op |-> "Drop", table |-> tn, columns |-> <<>>, rows |-> <<>>]
PlainStmt(o) == [op |-> o, table |-> "", columns |-> <<>>, rows |-> <<>>]

SqlCreates ==
    { CreateStmt("t", <<Col("a", "Integer", TRUE), Col("b", "Real", FALSE),
                        Col("c", "Varchar", FALSE)>>),
      \* a column name defined twice
      CreateStmt("t", <<Col("a", "Integer", FALSE), Col("a", "SmallInt", FALSE),
                        Col("b", "Double", FALSE)>>),
      CreateStmt("u", <<Col("k", "Custom", FALSE), Col("v", "Float", TRUE)>>),
      \* an unsupported type, and a custom type under NOT NULL
      CreateStmt("u", <<Col("k", "Boolean", FALSE)>>),
      CreateStmt("u", <<Col("k", "Custom", TRUE)>>) }

SqlInserts ==
    { InsertStmt("t", <<>>, << <<Num(1), Dec(25), Str("x")>> >>),
      InsertStmt("t", <<>>, << <<Num(2), NullExpr, NullExpr>>,
                               <<Num(3), Neg(Dec(45)), Str("y")>> >>),
      InsertStmt("t", <<>>, << <<Num(1), Num(2)>> >>),
      InsertStmt("t", <<>>, << <<Neg(Num(1)), NullExpr, NullExpr>> >>),
      InsertStmt("t", <<"a">>, << <<Num(5)>> >>),
      InsertStmt("t", <<"c", "a">>, << <<Str("z"), Num(6)>>, <<NullExpr, Num(7)>> >>),
      InsertStmt("t", <<"b">>, << <<Dec(15)>> >>),
      InsertStmt("t", <<"a", "b">>, << <<Num(7)>> >>),
      InsertStmt("t", <<"a", "zz">>, << <<Num(8), Num(9)>> >>),
      InsertStmt("u", <<>>, << <<Num(4), Neg(Num(3))>> >>),
      InsertStmt("u", <<>>, << <<Neg(Num(4)), Num(3)>> >>),
      InsertStmt("u", <<"v">>, << <<Num(6)>> >>) }

SqlDrops == { DropStmt("t"), DropStmt("u") }
SqlTransactions == { PlainStmt("StartTransaction"), PlainStmt("Commit") }
SqlOthers == { PlainStmt("Update") }

\* u32::try_from(i64).is_ok(). TLC's integers are 32 bits wide, so the
\* key range is scaled: the codes below 2^30 fit the key type as the codes
\* below 2^32 do in the program; every code of the registry is far below both.
U32Limit == 2^30
FitsU32(n) == n >= 0 /\ n < U32Limit

\* ------------------------------------------------------- the network cache

RETRY_LIMIT == 8

\* The threads that call get_cached, the urls they ask for, the bodies a
\* server may send, and how many calls each thread makes.
Threads == {1, 2}
Urls == {"u1", "u2"}
Bodies == {"x", "y"}
MaxCalls == 2

\* What one get(url) gives: Err, a response whose status is not 200, a
\* response with status 200 whose text cannot be read, or status 200 and a
\* body.
Response(kind, body) == [kind |-> kind, body |-> body]
Responses ==
    {Response("Err", ""), Response("Status", ""), Response("Unreadable", "")}
    \cup {Response("Ok200", b) : b \in Bodies}

\* The closure of find_map: e.ok().filter(status 200).and_then(text().ok())
body_of(r) == IF r.kind = "Ok200" THEN Some(r.body) ELSE None

\* hm.contains_key(url), had it never found the key.
contains_key_Never(hm, url) == FALSE

\* hm.contains_key(url)
contains_key(hm, url) == url \in DOMAIN hm

\* hm.insert(url, tmp)
hm_insert(hm, url, tmp) ==
    [u \in DOMAIN hm \cup {url} |-> IF u = url THEN tmp ELSE hm[u]]

\* take(RETRY_LIMIT): another response is pulled while fewer than RETRY_LIMIT
\* have been.
take(pulled) == pulled < RETRY_LIMIT

NoThread == [pc |-> "idle", url |-> "", tries |-> 0, hit |-> FALSE, result |-> "", calls |-> 0]
FreeMutex == [holder |-> 0, poisoned |-> FALSE]

\* The cache of a process that never called get_cached.
NetUnused ==
    /\ cache = <<>>
    /\ mutex = FreeMutex
    /\ thread = [t \in Threads |-> NoThread]
    /\ fetched = [u \in Urls |-> 0]

\* A thread calls get_cached(url).
NetCall ==
    \E t \in Threads, url \in Urls :
        /\ pc = "fetching"
        /\ thread[t].pc \in {"idle", "returned"}
        /\ thread[t].calls < MaxCalls
        /\ thread' = [thread EXCEPT ![t] =
                        [pc |-> "lock", url |-> url, tries |-> 0, hit |-> FALSE,
                         result |-> "", calls |-> thread[t].calls + 1]]
        /\ UNCHANGED <<regvars, graphvars, cache, mutex, fetched>>

\* NET_CACHE.lock(): waits while another thread holds the guard; on a
\* poisoned mutex it gives Err, the closure is skipped and unwrap() panics.
NetLock ==
    \E t \in Threads :
        /\ thread[t].pc = "lock"
        /\ mutex.holder = 0
        /\ IF mutex.poisoned
           THEN /\ thread' = [thread EXCEPT ![t].pc = "panicked"]
                /\ UNCHANGED mutex
           ELSE /\ thread' = [thread EXCEPT ![t].pc = "locked"]
                /\ mutex' = [mutex EXCEPT !.holder = t]
        /\ UNCHANGED <<regvars, graphvars, cache, fetched>>

\* if !hm.contains_key(url)
NetLookup ==
    \E t \in Threads :
        /\ thread[t].pc = "locked"
        /\ thread' = [thread EXCEPT ![t] =
                        IF contains_key(cache, thread[t].url)
                        THEN [@ EXCEPT !.pc = "get", !.hit = TRUE]
                        ELSE [@ EXCEPT !.pc = "requesting"]]
        /\ UNCHANGED <<regvars, graphvars, cache, mutex, fetched>>

\* find_map pulls one more get(url) through take(RETRY_LIMIT); a body ends
\* the search and is inserted into the map.
NetRequest ==
    \E t \in Threads, r \in Responses :
        /\ thread[t].pc = "requesting"
        /\ take(thread[t].tries)
        /\ IF body_of(r) # None
           THEN /\ cache' = hm_insert(cache, thread[t].url, body_of(r)[1])
                /\ fetched' = [fetched EXCEPT ![thread[t].url] = @ + 1]
                /\ thread' = [thread EXCEPT ![t].pc = "get", ![t].tries = @ + 1]
           ELSE /\ thread' = [thread EXCEPT ![t].tries = @ + 1]
                /\ UNCHANGED <<cache, fetched>>
        /\ UNCHANGED <<regvars, graphvars, mutex>>

\* find_map ends with None: expect("Too many retries.") panics while the
\* guard is held, so the guard is dropped in the unwinding and the mutex is
\* poisoned.
NetExhausted ==
    \E t \in Threads :
        /\ thread[t].pc = "requesting"
        /\ ~take(thread[t].tries)
        /\ thread' = [thread EXCEPT ![t].pc = "panicked"]
        /\ mutex' = [holder |-> 0, poisoned |-> TRUE]
        /\ UNCHANGED <<regvars, graphvars, cache, fetched>>

\* hm.get(url).unwrap().into(): the stored body is returned and the guard
\* dropped.
NetReturn ==
    \E t \in Threads :
        /\ thread[t].pc = "get"
        /\ thread' = [thread EXCEPT ![t].pc = "returned",
                                    ![t].result = cache[thread[t].url]]
        /\ mutex' = [mutex EXCEPT !.holder = 0]
        /\ UNCHANGED <<regvars, graphvars, cache, fetched>>

\* ----------------------------------------------------------- the CRS graph

PERMITTED_METHODS ==
    {9602, 9659, 1061, 1062, 1063, 1034, 1039, 9636, 1033, 1037, 9606, 1032, 1038,
     9607, 1053, 1055, 1054, 1056, 1058, 1057, 1031, 1035, 9603, 1064, 1067, 1065,
     1066, 1024, 9801, 9802, 9807, 9809, 9810, 9820, 9822}

\* The code the expansion starts from.
StartCode == 4936

\* The depth beyond which the model does not follow the recursion.
MaxDepth == 6

\* Rows of epsg_coordoperation as <<coord_op_code, source_crs_code,
\* target_crs_code, coord_op_method_code>>, rows of
\* epsg_coordinatereferencesystem as <<coord_ref_sys_code, coord_ref_sys_kind,
\* base_crs_code, projection_conv_code>>, each entry an Option<Field>.
OperationPool ==
    << <<IntField(101), IntField(4936), IntField(4937), IntField(9659)>>,
       <<IntField(102), IntField(4937), IntField(4936), IntField(9602)>>,
       <<IntField(103), IntField(4937), IntField(4258), IntField(9659)>>,
       <<IntField(104), IntField(4258), IntField(4258), IntField(1033)>>,
       <<IntField(105), IntField(4936), IntField(5000), IntField(9999)>>,
       <<IntField(106), NoField, IntField(4936), IntField(9602)>> >>
CrsPool ==
    << <<IntField(4258), StringField("geographic 2D"), IntField(4937), IntField(15593)>>,
       <<IntField(3035), StringField("projected"), IntField(4258), IntField(19986)>>,
       <<IntField(4937), StringField("geographic 3D"), IntField(4936), IntField(15592)>>,
       <<IntField(4936), StringField("geographic 3D"), IntField(4258), IntField(1)>>,
       <<IntField(4979), StringField("geocentric"), IntField(4936), IntField(2)>>,
       <<IntField(4980), StringField("geographic 2D"), IntField(4936), NoField>> >>

\* The rows of a pool at the indices of keep, in the pool's order.
SubSeq2(pool, keep) == SelectSeq([i \in DOMAIN pool |-> IF i \in keep THEN pool[i] ELSE <<>>],
                                 LAMBDA r : r # <<>>)

\* get_rows_where_i64(col, start, ..) on the operations, col the position of
\* the filter column in the rows
OpRowsWhere(ops, col, start) == SelectSeq(ops, LAMBDA r : r[col] = IntField(start))

\* get_rows_where_i64("base_crs_code", start, [code, kind, conv])
CrsRowsWhere(crs, start) ==
    LET hit == SelectSeq(crs, LAMBDA r : r[3] = IntField(start))
    IN  [k \in DOMAIN hit |-> <<hit[k][1], hit[k][2], hit[k][4]>>]

\* CoordOp { code, from, to, method }
CoordOp(code, from, to, method) == <<code, from, to, method>>

\* nodes.insert(x) returns true, had it done so for every x.
insert_is_new_Always(set, x) == TRUE

\* nodes.insert(x) returns true exactly when x was not in the set.
insert_is_new(set, x) == x \notin set

\* A call recurse_graph(.., start) at its first loop: the rows with start as
\* source chained with the rows with start as target.
Frame(reg, start) ==
    [start |-> start, loop |-> "ops", i |-> 1, at |-> "from",
     rows |-> OpRowsWhere(reg.ops, 2, start) \o OpRowsWhere(reg.ops, 3, start)]

\* No expansion is under way.
GraphUnused ==
    /\ registry = [ops |-> <<>>, crs |-> <<>>]
    /\ nodes = {}
    /\ edges = {}
    /\ stack = <<>>
    /\ expansions = 0

Top == stack[Len(stack)]
SetTop(f) == [stack EXCEPT ![Len(stack)] = f]
Call(f, start) == SetTop(f) \o <<Frame(registry, start)>>

\* One row of the first loop, up to the recursion into its source.
GraphOpFrom ==
    /\ stack # <<>>
    /\ Top.loop = "ops" /\ Top.i <= Len(Top.rows) /\ Top.at = "from"
    /\ LET row == Top.rows[Top.i]
           next == [Top EXCEPT !.i = @ + 1]
       IN  IF \E j \in 1..4 : row[j].k # "IntLike"
           THEN /\ stack' = SetTop(next)
                /\ UNCHANGED <<nodes, edges, expansions>>
           ELSE /\ edges' = edges \cup {CoordOp(row[1].n, row[2].n, row[3].n, row[4].n)}
                /\ IF row[4].n \notin PERMITTED_METHODS
                   THEN /\ stack' = SetTop(next)
                        /\ UNCHANGED <<nodes, expansions>>
                   ELSE /\ nodes' = nodes \cup {row[2].n}
                        /\ IF insert_is_new(nodes, row[2].n)
                           THEN /\ Len(stack) < MaxDepth
                                /\ stack' = Call([Top EXCEPT !.at = "to"], row[2].n)
                                /\ expansions' = expansions + 1
                           ELSE /\ stack' = SetTop([Top EXCEPT !.at = "to"])
                                /\ UNCHANGED expansions
    /\ UNCHANGED <<regvars, netvars, registry>>

\* The rest of the row: the recursion into its target.
GraphOpTo ==
    /\ stack # <<>>
    /\ Top.loop = "ops" /\ Top.i <= Len(Top.rows) /\ Top.at = "to"
    /\ LET row == Top.rows[Top.i]
           next == [Top EXCEPT !.i = @ + 1, !.at = "from"]
       IN  /\ nodes' = nodes \cup {row[3].n}
           /\ IF insert_is_new(nodes, row[3].n)
              THEN /\ Len(stack) < MaxDepth
                   /\ stack' = Call(next, row[3].n)
                   /\ expansions' = expansions + 1
              ELSE /\ stack' = SetTop(next)
                   /\ UNCHANGED expansions
    /\ UNCHANGED <<regvars, netvars, registry, edges>>

\* The first loop is over: the second loop starts on the CRS based on start.
GraphOpsDone ==
    /\ stack # <<>>
    /\ Top.loop = "ops" /\ Top.i > Len(Top.rows)
    /\ stack' = SetTop([Top EXCEPT !.loop = "crs", !.i = 1,
                                   !.rows = CrsRowsWhere(registry.crs, Top.start)])
    /\ UNCHANGED <<regvars, netvars, registry, nodes, edges, expansions>>

\* One row of the second loop.
GraphCrsRow ==
    /\ stack # <<>>
    /\ Top.loop = "crs" /\ Top.i <= Len(Top.rows)
    /\ LET row == Top.rows[Top.i]
           next == [Top EXCEPT !.i = @ + 1]
           from == row[1].n
       IN  IF row[1].k # "IntLike" \/ row[2].k # "StringLike" \/ row[3].k # "IntLike"
              \/ row[2].s \notin {"projected", "geographic 2D", "geographic 3D"}
           THEN /\ stack' = SetTop(next)
                /\ UNCHANGED <<nodes, edges, expansions>>
           ELSE IF row[2].s = "projected"
           THEN /\ edges' = edges \cup {CoordOp(row[3].n, from, Top.start, row[3].n)}
                /\ stack' = SetTop(next)
                /\ UNCHANGED <<nodes, expansions>>
           ELSE /\ edges' = edges \cup {CoordOp(U32Limit - 1, from, Top.start, row[3].n)}
                /\ nodes' = nodes \cup {from}
                /\ IF insert_is_new(nodes, from)
                   THEN /\ Len(stack) < MaxDepth
                        /\ stack' = Call(next, from)
                        /\ expansions' = expansions + 1
                   ELSE /\ stack' = SetTop(next)
                        /\ UNCHANGED expansions
    /\ UNCHANGED <<regvars, netvars, registry>>

\* Both loops are over: the call returns.
GraphReturn ==
    /\ stack # <<>>
    /\ Top.loop = "crs" /\ Top.i > Len(Top.rows)
    /\ stack' = SubSeq(stack, 1, Len(stack) - 1)
    /\ UNCHANGED <<regvars, netvars, registry, nodes, edges, expansions>>

\* ------------------------------------------------------ the reader's steps

NoStmt == PlainStmt("")
NoOutcome == [kind |-> "none", msg |-> "", val |-> <<>>]
NoLookup == [fn |-> "", code |-> 0, result |-> "none"]
NoCall == [fn |-> "", args |-> <<>>, result |-> <<>>]

\* One iteration of the loop over the statements, for a statement s.
ReadStep(s, max) ==
    /\ pc = "reading"
    /\ nstmts < max
    /\ LET r == Exec(db, s)
       IN  /\ db' = r.db
           /\ pc' = IF r.ok THEN "reading" ELSE "panic"
    /\ stmt' = s
    /\ nstmts' = nstmts + 1
    /\ UNCHANGED <<ellipsoids, gen, ellsrc, lookup, call, netvars, graphvars>>

\* `Self { tables }`: the reader returns the store.
FinishRead ==
    /\ pc = "reading"
    /\ pc' = "loaded"
    /\ UNCHANGED <<db, stmt, nstmts, ellipsoids, gen, ellsrc, lookup, call, netvars, graphvars>>

SqlInsert == \E s \in SqlInserts : ReadStep(s, MaxSqlStmts)
SqlCreateTable == \E s \in SqlCreates : ReadStep(s, MaxSqlStmts)
SqlDrop == \E s \in SqlDrops : ReadStep(s, MaxSqlStmts)
SqlTransaction == \E s \in SqlTransactions : ReadStep(s, MaxSqlStmts)
SqlUnsupported == \E s \in SqlOthers : ReadStep(s, MaxSqlStmts)

\* The queries made of the store the reader returned.
QueryColumns == {"a", "b", "k", "zz"}
QueryValues == {0, 1, 4}
QuerySelects == {<<"a", "c">>, <<"b">>, <<"v", "k">>, <<"a", "zz">>}

\* A caller of the store: db.get_table(tn) and, when the table exists,
\* get_rows_where_i64 on it.
SqlQuery ==
    /\ pc = "loaded"
    /\ call = NoCall
    /\ \E tn \in SqlTables, col \in QueryColumns, val \in QueryValues, select \in QuerySelects :
          /\ db[tn].exists
          /\ call' = [fn |-> "get_rows_where_i64",
                      args |-> <<tn, col, val, select>>,
                      result |-> get_rows_where_i64(db[tn], col, val, select)]
    /\ UNCHANGED <<db, stmt, nstmts, pc, ellipsoids, gen, ellsrc, lookup, netvars, graphvars>>

InitSql ==
    /\ db = [n \in SqlTables |-> NoTable]
    /\ stmt = NoStmt
    /\ nstmts = 0
    /\ pc = "reading"
    /\ ellipsoids = NoOutcome
    /\ gen = NoOutcome
    /\ ellsrc = NoOutcome
    /\ lookup = NoLookup
    /\ call = NoCall
    /\ NetUnused
    /\ GraphUnused

NextSql ==
    \/ SqlInsert
    \/ SqlCreateTable
    \/ SqlDrop
    \/ SqlTransaction
    \/ SqlUnsupported
    \/ FinishRead
    \/ SqlQuery

SpecSql == InitSql /\ [][NextSql]_vars

\* ------------------------------------------------------------ C10 (reader)

\* A step of the reader that processed an INSERT.
InsertStepTaken == nstmts' = nstmts + 1 /\ stmt'.op = "Insert"

Nullable(kind) == kind \in {"MaybeStringLike", "MaybeIntLike", "MaybeDouble"}

\* Whether a column of this kind takes the literal x.
Accepts(kind, x) ==
    CASE x.e = "Null" -> Nullable(kind)
      [] x.e = "String" -> kind \in {"StringLike", "MaybeStringLike"}
      [] x.e = "Number" -> \/ kind \in {"Double", "MaybeDouble"}
                           \/ kind \in {"IntLike", "MaybeIntLike"} /\ x.dec = 0
      [] x.e = "Minus" -> kind \in {"Double", "MaybeDouble"} /\ x.s = "Number"
      [] OTHER -> FALSE

\* The entry the literal x denotes in a column of this kind.
Denotes(kind, x) ==
    LET v == CASE x.e = "String" -> x.s
               [] x.e = "Minus" -> 0 - (IF x.dec = 0 THEN x.mant * 10 ELSE x.mant)
               [] kind \in {"IntLike", "MaybeIntLike"} -> x.mant
               [] OTHER -> IF x.dec = 0 THEN x.mant * 10 ELSE x.mant
    IN  IF x.e = "Null" THEN None ELSE IF Nullable(kind) THEN Some(v) ELSE v

DistinctColumns(t) == Len(t.column_order) = Cardinality(DOMAIN t.columns)

\* The literal an INSERT s assigns to the table's j-th column from row r:
\* by position without a column list, by name (NULL when not named) with one.
Assigned(s, t, r, j) ==
    IF s.columns = <<>> THEN s.rows[r][j]
    ELSE IF t.column_order[j] \in Range(s.columns)
         THEN s.rows[r][FirstIndex(s.columns, t.column_order[j])]
         ELSE NullExpr

\* Every row of s can be assigned: the width matches (no column list), or
\* every named column of the table has a value in the row (column list).
RowsFit(s, t) ==
    \A r \in DOMAIN s.rows :
        IF s.columns = <<>> THEN Len(s.rows[r]) = Len(t.column_order)
        ELSE \A j \in DOMAIN t.column_order :
                FirstIndex(s.columns, t.column_order[j]) <= Len(s.rows[r])

\* Every column of t grew by one entry per row of s, the entries being the
\* ones Assigned names, and kept what it held.
RowsStored(s, t, t2) ==
    \A j \in DOMAIN t.column_order :
        LET n == t.column_order[j]
            old == t.columns[n].data
            new == t2.columns[n].data
        IN  /\ Len(new) = Len(old) + Len(s.rows)
            /\ SubSeq(new, 1, Len(old)) = old
            /\ \A r \in DOMAIN s.rows :
                  new[Len(old) + r] = Denotes(t.columns[n].kind, Assigned(s, t, r, j))

NumericKinds == {"IntLike", "MaybeIntLike", "Double", "MaybeDouble"}

\* x is a unary minus applied to a numeric literal that a column of this
\* numeric kind takes when written without the minus.
NegatedNumber(kind, x) ==
    /\ x.e = "Minus"
    /\ x.s = "Number"
    /\ kind \in NumericKinds
    /\ kind \in {"IntLike", "MaybeIntLike"} => x.dec = 0

\* The negated number as an entry of a column of this kind.
NegatedEntry(kind, x) ==
    LET v == IF kind \in {"IntLike", "MaybeIntLike"} THEN 0 - x.mant
             ELSE 0 - (IF x.dec = 0 THEN x.mant * 10 ELSE x.mant)
    IN  IF Nullable(kind) THEN Some(v) ELSE v

\* C11: an INSERT (into a table with distinct column names) whose rows fit and
\* whose literals are each either taken by their column or a unary minus on a
\* numeric literal in a numeric column (integer, nullable integer, double,
\* nullable double) is stored, and every such negated literal is stored as the
\* negated number.
C11_NegatedNumberStored ==
    [][ InsertStepTaken /\ db[stmt'.table].exists /\ DistinctColumns(db[stmt'.table]) =>
          LET s == stmt'
              t == db[s.table]
              kindOf(j) == t.columns[t.column_order[j]].kind
              fits == /\ RowsFit(s, t)
                      /\ \A r \in DOMAIN s.rows : \A j \in DOMAIN t.column_order :
                            \/ Accepts(kindOf(j), Assigned(s, t, r, j))
                            \/ NegatedNumber(kindOf(j), Assigned(s, t, r, j))
          IN  fits =>
                /\ pc' = "reading"
                /\ \A r \in DOMAIN s.rows : \A j \in DOMAIN t.column_order :
                      NegatedNumber(kindOf(j), Assigned(s, t, r, j)) =>
                          LET old == t.columns[t.column_order[j]].data
                              new == db'[s.table].columns[t.column_order[j]].data
                          IN  /\ Len(new) = Len(old) + Len(s.rows)
                              /\ new[Len(old) + r] =
                                    NegatedEntry(kindOf(j), Assigned(s, t, r, j)) ]_vars

\* ------------------------------------------------------------ C12 (reader)

\* C12: DROP TABLE IF EXISTS removes the named table when the store holds it
\* and changes nothing otherwise, every other table keeping its columns and
\* rows; BEGIN, COMMIT and an unrecognised statement leave the store as it
\* was; after each of them the reader goes on to the next statement.
C12_DropAndNoOps ==
    [][ nstmts' = nstmts + 1 =>
          /\ stmt'.op = "Drop" =>
                /\ pc' = "reading"
                /\ ~db'[stmt'.table].exists
                /\ \A n \in DOMAIN db : n # stmt'.table => db'[n] = db[n]
                /\ ~db[stmt'.table].exists => db' = db
          /\ stmt'.op \notin {"Insert", "CreateTable", "Drop"} =>
                /\ pc' = "reading"
                /\ db' = db ]_vars

\* The third statement was a DROP; the table it names is gone while the other
\* table still holds a stored row.
C12_Witness ==
    /\ pc = "reading"
    /\ stmt.op = "Drop"
    /\ nstmts = 3
    /\ ~db[stmt.table].exists
    /\ \E n \in DOMAIN db :
          /\ db[n].exists
          /\ \E c \in DOMAIN db[n].columns : Len(db[n].columns[c].data) > 0

\* ------------------------------------------------------------ C13 (reader)

\* The rows of `rows` at the positions where the one-field rows of `keys`
\* hold the integer v, in order.
RECURSIVE RowsWhere(_, _, _, _)
RowsWhere(rows, keys, v, i) ==
    IF i > Len(rows) THEN <<>>
    ELSE (IF keys[i][1] = IntField(v) THEN <<rows[i]>> ELSE <<>>)
         \o RowsWhere(rows, keys, v, i + 1)

Ok(v) == [kind |-> "ok", msg |-> "", val |-> v]
Err(m) == [kind |-> "err", msg |-> m, val |-> <<>>]
Panic(m) == [kind |-> "panic", msg |-> m, val |-> <<>>]

\* f64 `v * factor_b / factor_c`, in tenths.
Scaled(v, factor_b, factor_c) == (v * factor_b) \div factor_c

\* The elements of a sequence of options that are Some, unwrapped
\* (Iterator::filter_map).
Somes(opts) ==
    LET s == SelectSeq(opts, LAMBDA o : o # None)
    IN  [i \in DOMAIN s |-> s[i][1]]

\* collect::<HashMap<_, _>>() over (key, value) pairs: the last pair of a key
\* wins.
CollectMap(pairs) ==
    [k \in {pairs[i][1] : i \in DOMAIN pairs} |->
        pairs[CHOOSE i \in DOMAIN pairs :
                /\ pairs[i][1] = k
                /\ \A j \in DOMAIN pairs : pairs[j][1] = k => j <= i][2]]

\* entry(key).or_default().push(value) over (key, value) pairs: each key with
\* its values in order.
CollectVecs(pairs) ==
    [k \in {pairs[i][1] : i \in DOMAIN pairs} |->
        LET sel == SelectSeq(pairs, LAMBDA p : p[1] = k)
        IN  [i \in DOMAIN sel |-> sel[i][2]]]

\* db.get_table(name).ok_or(..)?.get_rows(select)?
TableRowsOf(d, name, select) ==
    IF ~d[name].exists THEN [ok |-> FALSE, rows |-> <<>>]
    ELSE get_rows(d[name], select)

\* Ellipsoid::from_a_b and Ellipsoid::from_a_f_inv: the axes, in tenths.
from_a_b(a, b) == [a |-> a, b |-> b]
from_a_f_inv(a, f_inv) == [a |-> a, b |-> a - (a * 10) \div f_inv]

\* uom_rows.iter().find(|[f, _, _]| f is IntLike(uom_code)): the index of the
\* first unit row with this code, 0 when there is none.
FindUom(uom_rows, uom_code) ==
    IF \E i \in DOMAIN uom_rows : uom_rows[i][1] = IntField(uom_code)
    THEN CHOOSE i \in DOMAIN uom_rows :
            /\ uom_rows[i][1] = IntField(uom_code)
            /\ \A j \in DOMAIN uom_rows : uom_rows[j][1] = IntField(uom_code) => i <= j
    ELSE 0

\* The body of `for a in &ell_rows` for one row: the (code, ellipsoid) it
\* yields, or how it fails.
EllipsoidOfRow(a, uom_rows) ==
    LET fail(how) == [how |-> how, code |-> 0, ell |-> from_a_b(0, 0)]
    IN  IF ~(a[1].k = "IntLike" /\ a[5].k = "IntLike") THEN fail("no uom code")
        ELSE
        LET u == FindUom(uom_rows, a[5].n)
        IN  IF u = 0 \/ ~(uom_rows[u][2].k = "Double" /\ uom_rows[u][3].k = "Double")
            THEN fail("no uom")
            ELSE
            LET fac_b == uom_rows[u][2].n
                fac_c == uom_rows[u][3].n
            IN  IF a[2].k = "Double" /\ a[3].k = "Double" /\ a[4].k = "None"
                THEN IF FitsU32(a[1].n)
                     THEN [how |-> "ok", code |-> a[1].n,
                           ell |-> from_a_b(Scaled(a[2].n, fac_b, fac_c),
                                            Scaled(a[3].n, fac_b, fac_c))]
                     ELSE fail("overflow")
                ELSE IF a[2].k = "Double" /\ a[3].k = "None" /\ a[4].k = "Double"
                THEN IF FitsU32(a[1].n)
                     THEN [how |-> "ok", code |-> a[1].n,
                           ell |-> from_a_f_inv(Scaled(a[2].n, fac_b, fac_c), a[4].n)]
                     ELSE fail("overflow")
                ELSE fail("malformed")

EllipsoidSelect ==
    <<"ellipsoid_code", "semi_major_axis", "semi_minor_axis", "inv_flattening", "uom_code">>
UomSelect == <<"uom_code", "factor_b", "factor_c">>

\* get_ellipsoids: the loop from row i on, acc the map built so far.
RECURSIVE get_ellipsoids_from(_, _, _, _)
get_ellipsoids_from(ell_rows, uom_rows, i, acc) ==
    IF i > Len(ell_rows) THEN Ok(acc)
    ELSE LET r == EllipsoidOfRow(ell_rows[i], uom_rows)
         IN  CASE r.how = "no uom code" -> Err("No UOM Code given.")
               [] r.how = "no uom" -> Panic("No UOM found for Code in DB.")
               [] r.how = "malformed" -> Err("Ellipsoids need either b or f_inv.")
               [] r.how = "overflow" -> Err("TryFromIntError")
               [] OTHER ->
                    get_ellipsoids_from(ell_rows, uom_rows, i + 1,
                        [c \in DOMAIN acc \cup {r.code} |->
                            IF c = r.code THEN r.ell ELSE acc[c]])

get_ellipsoids(d) ==
    LET ell == TableRowsOf(d, "epsg_ellipsoid", EllipsoidSelect)
        uom == TableRowsOf(d, "epsg_unitofmeasure", UomSelect)
    IN  IF ~ell.ok THEN Err("No Ellipsoid Table")
        ELSE IF ~uom.ok THEN Err("No UOM Table")
        ELSE get_ellipsoids_from(ell.rows, uom.rows, 1, <<>>)

\* gen_ellipsoid_constructors: the loop from row i on, acc the entries of the
\* generated map so far.
RECURSIVE gen_ellipsoid_constructors_from(_, _, _, _)
gen_ellipsoid_constructors_from(ell_rows, uom_rows, i, acc) ==
    IF i > Len(ell_rows) THEN Ok(acc)
    ELSE LET r == EllipsoidOfRow(ell_rows[i], uom_rows)
         IN  CASE r.how = "no uom code" -> Panic("No UOM Code given.")
               [] r.how = "no uom" -> Panic("No UOM found for Code in DB.")
               [] r.how = "malformed" -> Panic("Ellipsoids need either b or f_inv.")
               [] r.how = "overflow" -> Err("TryFromIntError")
               [] OTHER ->
                    gen_ellipsoid_constructors_from(ell_rows, uom_rows, i + 1,
                        [c \in DOMAIN acc \cup {r.code} |->
                            IF c = r.code THEN r.ell ELSE acc[c]])

\* gen_ellipsoid_constructors, had it written a map without entries.
gen_ellipsoid_constructors_Empty(d) == Ok(<<>>)

gen_ellipsoid_constructors(d) ==
    LET ell == TableRowsOf(d, "epsg_ellipsoid", EllipsoidSelect)
        uom == TableRowsOf(d, "epsg_unitofmeasure", UomSelect)
    IN  IF ~ell.ok THEN Err("No Ellipsoid Table")
        ELSE IF ~uom.ok THEN Err("No UOM Table")
        ELSE gen_ellipsoid_constructors_from(ell.rows, uom.rows, 1, <<>>)

\* ------------------------------------- per-family database constructors

\* params.iter().find_map(..): the value of the first pair with this code.
find_map(params, code) ==
    IF \E i \in DOMAIN params : params[i][1] = code
    THEN Some(params[CHOOSE i \in DOMAIN params :
                        /\ params[i][1] = code
                        /\ \A j \in DOMAIN params : params[j][1] = code => i <= j][2])
    ELSE None

\* The parameter codes each family's from_database_params looks up, in the
\* order of the lookups; each lookup is unwrapped.
TransverseMercator_codes == <<8802, 8801, 8805, 8806, 8807>>
LambertAzimuthalEqualArea_codes == <<8802, 8801, 8806, 8807>>
PolarStereographicA_codes == <<8802, 8801, 8805, 8806, 8807>>
LambertConic2SP_codes == <<8822, 8821, 8823, 8824, 8826, 8827>>
PopVisPseudoMercator_codes == <<8802, 8801, 8806, 8807>>
LambertConic1SPA_codes == <<8802, 8801, 8805, 8806, 8807>>
ObliqueStereographic_codes == <<8802, 8801, 8805, 8806, 8807>>
AlbersEqualArea_codes == <<8822, 8821, 8823, 8824, 8826, 8827>>

\* DbContstruct::from_database_params of a family: the projection built from
\* the looked-up values, or the panic of an unwrap on a missing code.
from_database_params(method, codes, params, ellipsoid) ==
    LET found == [i \in DOMAIN codes |-> find_map(params, codes[i])]
    IN  IF \E i \in DOMAIN found : found[i] = None
        THEN [ok |-> FALSE,
              proj |-> [kind |-> "panic", method |-> method, params |-> <<>>,
                        ellipsoid |-> ellipsoid]]
        ELSE [ok |-> TRUE,
              proj |-> [kind |-> "Projection", method |-> method,
                        params |-> [i \in DOMAIN found |-> found[i][1]],
                        ellipsoid |-> ellipsoid]]

\* The compiler's table of implemented projections: method code and the
\* direct_projection function of the family (here the codes it looks up).
IMPL_CONV ==
    << [v |-> 9807, codes |-> TransverseMercator_codes],
       [v |-> 9820, codes |-> LambertAzimuthalEqualArea_codes],
       [v |-> 9810, codes |-> PolarStereographicA_codes],
       [v |-> 9802, codes |-> LambertConic2SP_codes],
       [v |-> 1024, codes |-> PopVisPseudoMercator_codes],
       [v |-> 9801, codes |-> LambertConic1SPA_codes],
       [v |-> 9809, codes |-> ObliqueStereographic_codes],
       [v |-> 9822, codes |-> AlbersEqualArea_codes] >>

\* conv(param_values, ellipsoid) for an entry of the table.
direct_projection(conv, params, ellipsoid) ==
    from_database_params(conv.v, conv.codes, params, ellipsoid)

IdentityProjection ==
    [kind |-> "IdentityProjection", method |-> 0, params |-> <<>>,
     ellipsoid |-> from_a_b(0, 0)]

\* ---------------------------------- gen_parameter_constructors: the tables

\* A parameter value as the compiler stores it: n tenths of the unit's base
\* unit, or (dms) n arc minutes converted to radians.
ScaledValue(n) == [dms |-> FALSE, n |-> n]

\* epsg_9110_to_rad, on a value with one fractional digit: whole degrees plus
\* the first fractional digit read as tens of arc minutes, as an angle.
epsg_9110_to_rad(v) ==
    LET a == IF v < 0 THEN 0 - v ELSE v
        whole_deg == a \div 10
        arcmins == (a % 10) * 10
        sign == IF v < 0 THEN 0 - 1 ELSE IF v > 0 THEN 1 ELSE 0
    IN  [dms |-> TRUE, n |-> sign * (whole_deg * 60 + arcmins)]

\* The result of one of the table-building stages: ok is FALSE when the stage
\* returns Err.
Stage(ok, val) == [ok |-> ok, val |-> val]

UnitOfRow(row) ==
    IF row[1].k = "IntLike" /\ row[2].k = "Double" /\ row[3].k = "Double"
    THEN IF FitsU32(row[1].n) THEN Some(<<row[1].n, <<row[2].n, row[3].n>>>>) ELSE None
    ELSE None

Units(d) ==
    LET r == TableRowsOf(d, "epsg_unitofmeasure", UomSelect)
    IN  Stage(r.ok, CollectMap(Somes([i \in DOMAIN r.rows |-> UnitOfRow(r.rows[i])])))

Geographic2D(datum) ==
    [kind |-> "Geographic2D", datum |-> datum, conversion |-> 0, base |-> 0]
Projected(conversion, base) ==
    [kind |-> "Projected", datum |-> 0, conversion |-> conversion, base |-> base]

CrsEntryOfRow(row) ==
    IF row[1].k = "IntLike" /\ row[4].k = "IntLike" /\ row[5] = StringField("geographic 2D")
    THEN IF FitsU32(row[1].n) /\ FitsU32(row[4].n)
         THEN Some(<<row[1].n, Geographic2D(row[4].n)>>)
         ELSE None
    ELSE IF /\ row[1].k = "IntLike" /\ row[2].k = "IntLike" /\ row[3].k = "IntLike"
            /\ row[5] = StringField("projected")
    THEN IF FitsU32(row[1].n) /\ FitsU32(row[3].n) /\ FitsU32(row[2].n)
         THEN Some(<<row[1].n, Projected(row[3].n, row[2].n)>>)
         ELSE None
    ELSE None

CrsSelect ==
    <<"coord_ref_sys_code", "base_crs_code", "projection_conv_code", "datum_code",
      "coord_ref_sys_kind">>

CrsTable(d) ==
    LET r == TableRowsOf(d, "epsg_coordinatereferencesystem", CrsSelect)
    IN  Stage(r.ok, CollectMap(Somes([i \in DOMAIN r.rows |-> CrsEntryOfRow(r.rows[i])])))

NameOfRow(row) ==
    IF row[1].k = "IntLike" /\ row[2].k = "StringLike" /\ FitsU32(row[1].n)
    THEN Some(<<row[1].n, row[2].s>>)
    ELSE None

NamesTable(d) ==
    LET r == TableRowsOf(d, "epsg_coordinatereferencesystem",
                         <<"coord_ref_sys_code", "coord_ref_sys_name">>)
    IN  Stage(r.ok, CollectMap(Somes([i \in DOMAIN r.rows |-> NameOfRow(r.rows[i])])))

\* (code, (name, [lon_e, lat_n, lon_w, lat_s])) of a row selected as code,
\* name, south, west, north, east.
ExtentOfRow(row) ==
    IF /\ row[1].k = "IntLike" /\ row[2].k = "StringLike"
       /\ \A i \in 3..6 : row[i].k = "Double"
       /\ FitsU32(row[1].n)
    THEN Some(<<row[1].n, <<row[2].s, <<row[6].n, row[5].n, row[4].n, row[3].n>>>>>>)
    ELSE None

ExtentSelect ==
    <<"extent_code", "extent_name", "bbox_south_bound_lat", "bbox_west_bound_lon",
      "bbox_north_bound_lat", "bbox_east_bound_lon">>

ExtentsTable(d) ==
    LET r == TableRowsOf(d, "epsg_extent", ExtentSelect)
    IN  Stage(r.ok, CollectMap(Somes([i \in DOMAIN r.rows |-> ExtentOfRow(r.rows[i])])))

UsageOfRow(row, extents_table) ==
    IF /\ row[1].k = "IntLike" /\ row[2].k = "IntLike"
       /\ FitsU32(row[1].n) /\ FitsU32(row[2].n)
       /\ row[2].n \in DOMAIN extents_table
    THEN Some(<<row[1].n, extents_table[row[2].n]>>)
    ELSE None

UsagesTable(d, extents_table) ==
    LET r == TableRowsOf(d, "epsg_usage", <<"object_code", "extent_code">>)
    IN  Stage(r.ok, CollectVecs(Somes([i \in DOMAIN r.rows |->
                                          UsageOfRow(r.rows[i], extents_table)])))

\* What the closure over one operation row yields: nothing, Ok(pair) or Err.
OpOfRow(row) ==
    IF ~(row[1].k = "IntLike" /\ row[2].k = "IntLike") THEN [how |-> "none", pair |-> <<>>]
    ELSE IF FitsU32(row[1].n) /\ FitsU32(row[2].n)
    THEN [how |-> "ok", pair |-> <<row[1].n, row[2].n>>]
    ELSE [how |-> "err", pair |-> <<>>]

\* collect::<Result<HashMap, _>>() over what the rows yield: Err when a row
\* yields Err.
CollectResult(yields) ==
    IF \E i \in DOMAIN yields : yields[i].how = "err"
    THEN Stage(FALSE, <<>>)
    ELSE Stage(TRUE, CollectMap(Somes([i \in DOMAIN yields |->
                        IF yields[i].how = "ok" THEN Some(yields[i].pair) ELSE None])))

OpTable(d) ==
    LET r == TableRowsOf(d, "epsg_coordoperation", <<"coord_op_code", "coord_op_method_code">>)
    IN  IF ~r.ok THEN Stage(FALSE, <<>>)
        ELSE CollectResult([i \in DOMAIN r.rows |-> OpOfRow(r.rows[i])])

\* The closure over one parameter value row, had a unit row for 9110 taken
\* precedence over the sexagesimal decoder.
ParamOfRow_UnitFirst(row, units) ==
    LET none == [how |-> "none", pair |-> <<>>]
        err == [how |-> "err", pair |-> <<>>]
    IN  IF ~(/\ row[1].k = "IntLike" /\ row[2].k = "IntLike"
             /\ row[3].k = "Double" /\ row[4].k = "IntLike")
        THEN none
        ELSE IF ~FitsU32(row[4].n) THEN err
        ELSE IF row[4].n \notin DOMAIN units
        THEN IF row[4].n # 9110 THEN none
             ELSE IF FitsU32(row[1].n) /\ FitsU32(row[2].n)
             THEN [how |-> "ok", pair |-> <<row[1].n, <<row[2].n, epsg_9110_to_rad(row[3].n)>>>>]
             ELSE err
        ELSE IF FitsU32(row[1].n) /\ FitsU32(row[2].n)
             THEN [how |-> "ok",
                   pair |-> <<row[1].n,
                              <<row[2].n,
                                ScaledValue(Scaled(row[3].n, units[row[4].n][1],
                                                   units[row[4].n][2]))>>>>]
             ELSE err

\* The closure of try_for_each over one parameter value row: the (operation,
\* (parameter, value)) it pushes, nothing, or Err.
ParamOfRow(row, units) ==
    LET none == [how |-> "none", pair |-> <<>>]
        err == [how |-> "err", pair |-> <<>>]
    IN  IF ~(/\ row[1].k = "IntLike" /\ row[2].k = "IntLike"
             /\ row[3].k = "Double" /\ row[4].k = "IntLike")
        THEN none
        ELSE IF row[4].n = 9110
        THEN IF FitsU32(row[1].n) /\ FitsU32(row[2].n)
             THEN [how |-> "ok", pair |-> <<row[1].n, <<row[2].n, epsg_9110_to_rad(row[3].n)>>>>]
             ELSE err
        ELSE IF ~FitsU32(row[4].n) THEN err
        ELSE IF row[4].n \notin DOMAIN units THEN none
        ELSE IF FitsU32(row[1].n) /\ FitsU32(row[2].n)
             THEN [how |-> "ok",
                   pair |-> <<row[1].n,
                              <<row[2].n,
                                ScaledValue(Scaled(row[3].n, units[row[4].n][1],
                                                   units[row[4].n][2]))>>>>]
             ELSE err

ParamValues(d, units) ==
    LET r == TableRowsOf(d, "epsg_coordoperationparamvalue",
                         <<"coord_op_code", "parameter_code", "parameter_value", "uom_code">>)
        yields == [i \in DOMAIN r.rows |-> ParamOfRow(r.rows[i], units)]
    IN  IF ~r.ok \/ \E i \in DOMAIN yields : yields[i].how = "err"
        THEN Stage(FALSE, <<>>)
        ELSE Stage(TRUE, CollectVecs(Somes([i \in DOMAIN yields |->
                            IF yields[i].how = "ok" THEN Some(yields[i].pair) ELSE None])))

\* The closure over one datum row, had it kept a datum on any prime meridian.
DatumOfRow_AnyMeridian(row, ells) ==
    IF ~(row[1].k = "IntLike" /\ row[2].k = "IntLike" /\ row[3].k = "IntLike")
    THEN [how |-> "none", pair |-> <<>>]
    ELSE IF ~(FitsU32(row[1].n) /\ FitsU32(row[2].n) /\ FitsU32(row[3].n))
    THEN [how |-> "err", pair |-> <<>>]
    ELSE IF row[2].n \in DOMAIN ells
    THEN [how |-> "ok", pair |-> <<row[1].n, <<row[2].n, row[3].n>>>>]
    ELSE [how |-> "none", pair |-> <<>>]

\* What the closure over one datum row yields: only a datum on the Greenwich
\* meridian (8901) whose ellipsoid is known is kept.
DatumOfRow(row, ells) ==
    IF ~(row[1].k = "IntLike" /\ row[2].k = "IntLike" /\ row[3].k = "IntLike")
    THEN [how |-> "none", pair |-> <<>>]
    ELSE IF ~(FitsU32(row[1].n) /\ FitsU32(row[2].n) /\ FitsU32(row[3].n))
    THEN [how |-> "err", pair |-> <<>>]
    ELSE IF row[3].n = 8901 /\ row[2].n \in DOMAIN ells
    THEN [how |-> "ok", pair |-> <<row[1].n, <<row[2].n, 8901>>>>]
    ELSE [how |-> "none", pair |-> <<>>]

DatumTable(d, ells) ==
    LET r == TableRowsOf(d, "epsg_datum",
                         <<"datum_code", "ellipsoid_code", "prime_meridian_code">>)
    IN  IF ~r.ok THEN Stage(FALSE, <<>>)
        ELSE CollectResult([i \in DOMAIN r.rows |-> DatumOfRow(r.rows[i], ells)])

\* Every ensemble member row must carry both codes, and both must fit.
DatumEnsembleMemberTable(d) ==
    LET r == TableRowsOf(d, "epsg_datumensemblemember",
                         <<"datum_ensemble_code", "datum_code">>)
        good(row) == /\ row[1].k = "IntLike" /\ row[2].k = "IntLike"
                     /\ FitsU32(row[1].n) /\ FitsU32(row[2].n)
    IN  IF ~r.ok \/ \E i \in DOMAIN r.rows : ~good(r.rows[i])
        THEN Stage(FALSE, <<>>)
        ELSE Stage(TRUE, CollectVecs([i \in DOMAIN r.rows |->
                                        <<r.rows[i][1].n, r.rows[i][2].n>>]))

\* --------------------------------- gen_parameter_constructors: the entries

PlaceholderName == "Unknown Coordinate Reference System"

\* names_table.get(code).unwrap_or(..)
NameFor(names_table, code) ==
    IF code \in DOMAIN names_table THEN names_table[code] ELSE PlaceholderName

\* usages_table.get(code) as the generated area list: each area [e, n, w, s].
AreasFor(usages_table, code) ==
    IF code \in DOMAIN usages_table
    THEN Some([i \in DOMAIN usages_table[code] |-> usages_table[code][i][2]])
    ELSE None

\* The datum resolution, had it taken the last candidate that resolves.
ResolveEllipsoid_LastMember(datum, datum_ensemble_member_table, datum_table, ells) ==
    LET candidates == <<datum>> \o (IF datum \in DOMAIN datum_ensemble_member_table
                                    THEN datum_ensemble_member_table[datum] ELSE <<>>)
        found == SelectSeq(candidates, LAMBDA c : c \in DOMAIN datum_table)
    IN  IF found = <<>> THEN None ELSE Some(datum_table[found[Len(found)]][1])

\* The code of the first ellipsoid the datum, or a member of the ensemble of
\* that code, resolves to.
ResolveEllipsoid(datum, datum_ensemble_member_table, datum_table, ells) ==
    LET candidates == <<datum>> \o (IF datum \in DOMAIN datum_ensemble_member_table
                                    THEN datum_ensemble_member_table[datum] ELSE <<>>)
        datums == Somes([i \in DOMAIN candidates |->
                            IF candidates[i] \in DOMAIN datum_table
                            THEN Some(datum_table[candidates[i]]) ELSE None])
        found == Somes([i \in DOMAIN datums |->
                            IF datums[i][1] \in DOMAIN ells
                            THEN Some(datums[i][1]) ELSE None])
    IN  IF found = <<>> THEN None ELSE Some(found[1])

\* supporteds.iter().find(..), had it taken the first entry whatever the
\* method of the operation.
FindSupported_First(supporteds, op_code) == IF supporteds = <<>> THEN 0 ELSE 1

\* supporteds.iter().find(|(v, _)| v == op_code): the index of the entry, 0
\* when there is none.
FindSupported(supporteds, op_code) ==
    IF \E i \in DOMAIN supporteds : supporteds[i].v = op_code
    THEN CHOOSE i \in DOMAIN supporteds :
            /\ supporteds[i].v = op_code
            /\ \A j \in DOMAIN supporteds : supporteds[j].v = op_code => i <= j
    ELSE 0

Skip == [how |-> "skip", proj |-> IdentityProjection, ellipsoid_code |-> None]

\* The Projected arm of the loop over crs_table for one CRS: skipped
\* (continue), an entry, or the panic of the family constructor.
ProjectedEntry(crs, crs_table, ens, datum_table, paramvalues, op_table, supporteds, ells) ==
    IF ~(crs.base \in DOMAIN crs_table /\ crs_table[crs.base].kind = "Geographic2D")
    THEN Skip
    ELSE
    LET e == ResolveEllipsoid(crs_table[crs.base].datum, ens, datum_table, ells)
    IN  IF e = None THEN Skip
        ELSE IF crs.conversion \notin DOMAIN paramvalues THEN Skip
        ELSE IF crs.conversion \notin DOMAIN op_table THEN Skip
        ELSE
        LET s == FindSupported(supporteds, op_table[crs.conversion])
        IN  IF s = 0 THEN Skip
            ELSE
            LET p == direct_projection(supporteds[s], paramvalues[crs.conversion], ells[e[1]])
            IN  IF p.ok
                THEN [how |-> "entry", proj |-> p.proj, ellipsoid_code |-> e]
                ELSE [how |-> "panic", proj |-> p.proj, ellipsoid_code |-> e]

\* One iteration of the loop over crs_table.
CrsOutput(code, crs_table, ens, datum_table, paramvalues, op_table, supporteds, ells) ==
    IF crs_table[code].kind = "Geographic2D"
    THEN [how |-> "entry", proj |-> IdentityProjection, ellipsoid_code |-> None]
    ELSE ProjectedEntry(crs_table[code], crs_table, ens, datum_table, paramvalues,
                        op_table, supporteds, ells)

\* The four generated maps, had a name been written only for a code with a
\* name row.
GeneratedTables_NamedOnly(outs, names_table, usages_table) ==
    LET keys == {c \in DOMAIN outs : outs[c].how = "entry"}
    IN  [PROJECTIONS |-> [c \in keys |-> outs[c].proj],
         ELLIPSOIDS |-> [c \in {k \in keys : outs[k].ellipsoid_code # None} |->
                            outs[c].ellipsoid_code[1]],
         NAMES |-> [c \in keys \cap DOMAIN names_table |-> names_table[c]],
         AREAS |-> [c \in {k \in keys : AreasFor(usages_table, k) # None} |->
                            AreasFor(usages_table, c)[1]]]

\* The four generated maps, from the iterations that made entries.
GeneratedTables(outs, names_table, usages_table) ==
    LET keys == {c \in DOMAIN outs : outs[c].how = "entry"}
    IN  [PROJECTIONS |-> [c \in keys |-> outs[c].proj],
         ELLIPSOIDS |-> [c \in {k \in keys : outs[k].ellipsoid_code # None} |->
                            outs[c].ellipsoid_code[1]],
         NAMES |-> [c \in keys |-> NameFor(names_table, c)],
         AREAS |-> [c \in {k \in keys : AreasFor(usages_table, k) # None} |->
                            AreasFor(usages_table, c)[1]]]

gen_parameter_constructors(d, supporteds, ells) ==
    LET units == Units(d)
        crs_table == CrsTable(d)
        names_table == NamesTable(d)
        extents_table == ExtentsTable(d)
        usages_table == UsagesTable(d, extents_table.val)
        op_table == OpTable(d)
        paramvalues == ParamValues(d, units.val)
        datum_table == DatumTable(d, ells)
        ens == DatumEnsembleMemberTable(d)
        outs == [c \in DOMAIN crs_table.val |->
                    CrsOutput(c, crs_table.val, ens.val, datum_table.val, paramvalues.val,
                              op_table.val, supporteds, ells)]
    IN  IF ~units.ok THEN Err("No UOM table")
        ELSE IF ~crs_table.ok THEN Err("No CRS table")
        ELSE IF DOMAIN crs_table.val = {} THEN Panic("assertion failed: !crs_table.is_empty()")
        ELSE IF ~names_table.ok THEN Err("No CRS table")
        ELSE IF ~extents_table.ok THEN Err("No Extent Table")
        ELSE IF ~usages_table.ok THEN Err("No Usage Table")
        ELSE IF ~op_table.ok THEN Err("No Op table")
        ELSE IF ~paramvalues.ok THEN Err("No Param Value table")
        ELSE IF DOMAIN op_table.val = {} THEN Panic("assertion failed: !op_table.is_empty()")
        ELSE IF ~datum_table.ok THEN Err("No Datum table")
        ELSE IF ~ens.ok THEN Err("No Datum Ensemble Member table")
        ELSE IF \E c \in DOMAIN outs : outs[c].how = "panic"
        THEN Panic("called Option::unwrap on a None value")
        ELSE Ok(GeneratedTables(outs, names_table.val, usages_table.val))

\* ------------------------------------------------------ the EPSG registry

EpsgTables ==
    {"epsg_unitofmeasure", "epsg_ellipsoid", "epsg_datum", "epsg_datumensemblemember",
     "epsg_coordinatereferencesystem", "epsg_extent", "epsg_usage",
     "epsg_coordoperation", "epsg_coordoperationparamvalue"}

\* The columns the compiler selects, as the dump's CREATE TABLE statements
\* declare them, and the column of epsg_usage that names the table of the
\* object a usage row belongs to, which the compiler does not select.
EpsgColumns(tn) ==
    CASE tn = "epsg_unitofmeasure" ->
            <<Col("uom_code", "Integer", TRUE), Col("factor_b", "DoublePrecision", FALSE),
              Col("factor_c", "DoublePrecision", FALSE)>>
      [] tn = "epsg_ellipsoid" ->
            <<Col("ellipsoid_code", "Integer", TRUE),
              Col("semi_major_axis", "DoublePrecision", TRUE),
              Col("semi_minor_axis", "DoublePrecision", FALSE),
              Col("inv_flattening", "DoublePrecision", FALSE),
              Col("uom_code", "Integer", TRUE)>>
      [] tn = "epsg_datum" ->
            <<Col("datum_code", "Integer", TRUE), Col("ellipsoid_code", "Integer", FALSE),
              Col("prime_meridian_code", "Integer", FALSE)>>
      [] tn = "epsg_datumensemblemember" ->
            <<Col("datum_ensemble_code", "Integer", TRUE), Col("datum_code", "Integer", TRUE)>>
      [] tn = "epsg_coordinatereferencesystem" ->
            <<Col("coord_ref_sys_code", "Integer", TRUE),
              Col("coord_ref_sys_name", "Varchar", FALSE),
              Col("coord_ref_sys_kind", "Varchar", TRUE),
              Col("base_crs_code", "Integer", FALSE),
              Col("projection_conv_code", "Integer", FALSE),
              Col("datum_code", "Integer", FALSE)>>
      [] tn = "epsg_extent" ->
            <<Col("extent_code", "Integer", TRUE), Col("extent_name", "Varchar", TRUE),
              Col("bbox_south_bound_lat", "DoublePrecision", FALSE),
              Col("bbox_west_bound_lon", "DoublePrecision", FALSE),
              Col("bbox_north_bound_lat", "DoublePrecision", FALSE),
              Col("bbox_east_bound_lon", "DoublePrecision", FALSE)>>
      [] tn = "epsg_usage" ->
            <<Col("object_table_name", "Varchar", TRUE),
              Col("object_code", "Integer", TRUE), Col("extent_code", "Integer", TRUE)>>
      [] tn = "epsg_coordoperation" ->
            <<Col("coord_op_code", "Integer", TRUE),
              Col("coord_op_method_code", "Integer", FALSE)>>
      [] tn = "epsg_coordoperationparamvalue" ->
            <<Col("coord_op_code", "Integer", TRUE), Col("parameter_code", "Integer", TRUE),
              Col("parameter_value", "DoublePrecision", FALSE),
              Col("uom_code", "Integer", FALSE)>>

EpsgCreate(tn) == CreateStmt(tn, EpsgColumns(tn))

\* INSERT INTO <table> VALUES (<row>)
Row(tn, row) == InsertStmt(tn, <<>>, <<row>>)

UnitRow(code, b, c) == Row("epsg_unitofmeasure", <<Num(code), b, c>>)
EllipsoidRow(code, a, b, f_inv, uom) ==
    Row("epsg_ellipsoid", <<Num(code), a, b, f_inv, Num(uom)>>)
DatumRow(code, ell, pm) == Row("epsg_datum", <<Num(code), Num(ell), Num(pm)>>)
MemberRow(ens, datum) == Row("epsg_datumensemblemember", <<Num(ens), Num(datum)>>)
GeographicRow(code, name, kind, datum) ==
    Row("epsg_coordinatereferencesystem",
        <<Num(code), name, Str(kind), NullExpr, NullExpr, datum>>)
ProjectedRow(code, name, base, conv) ==
    Row("epsg_coordinatereferencesystem",
        <<Num(code), name, Str("projected"), Num(base), Num(conv), NullExpr>>)
ExtentRow(code, name, s, w, n, e) == Row("epsg_extent", <<Num(code), Str(name), s, w, n, e>>)
UsageRow(object_table, object, extent) ==
    Row("epsg_usage", <<Str(object_table), Num(object), Num(extent)>>)
CrsUsageRow(object, extent) == UsageRow("epsg_coordinatereferencesystem", object, extent)
OpRow(code, method) == Row("epsg_coordoperation", <<Num(code), Num(method)>>)
ParamRow(op, param, v, uom) ==
    Row("epsg_coordoperationparamvalue", <<Num(op), Num(param), v, Num(uom)>>)

\* for stmt in &ast: the statements of a dump from the i-th on.
RECURSIVE Load(_, _, _)
Load(d, stmts, i) ==
    IF i > Len(stmts) THEN d
    ELSE LET r == Exec(d, stmts[i])
         IN  IF r.ok THEN Load(r.db, stmts, i + 1) ELSE d

\* The prefix of the dump every behaviour starts from: the schema, two units,
\* three ellipsoids, three datums (one on the Paris meridian), an ensemble of
\* the three with the Paris datum first,
\* two geographic 2D systems, a geographic 3D system, a projected system and
\* six conversions (complete; complete with sexagesimal angles; one required
\* parameter short; unsupported method; without parameter values; without
\* operation row).
BaselineDump ==
    << EpsgCreate("epsg_unitofmeasure"), EpsgCreate("epsg_ellipsoid"),
       EpsgCreate("epsg_datum"), EpsgCreate("epsg_datumensemblemember"),
       EpsgCreate("epsg_coordinatereferencesystem"), EpsgCreate("epsg_extent"),
       EpsgCreate("epsg_usage"), EpsgCreate("epsg_coordoperation"),
       EpsgCreate("epsg_coordoperationparamvalue"),
       UnitRow(9001, Num(1), Num(1)), UnitRow(9101, Num(1), Num(1)),
       EllipsoidRow(7019, Num(6378137), NullExpr, Dec(2983), 9001),
       EllipsoidRow(7030, Num(6378137), NullExpr, Dec(2983), 9001),
       EllipsoidRow(7001, Dec(63775634), Dec(63562569), NullExpr, 9001),
       DatumRow(6258, 7019, 8901), DatumRow(1166, 7030, 8901), DatumRow(6807, 7001, 8903),
       MemberRow(6326, 6807), MemberRow(6326, 1166), MemberRow(6326, 6258),
       GeographicRow(4258, Str("ETRS89"), "geographic 2D", Num(6258)),
       GeographicRow(4807, Str("NTF (Paris)"), "geographic 2D", Num(6807)),
       GeographicRow(4979, Str("WGS 84"), "geographic 3D", Num(6326)),
       ProjectedRow(25832, Str("ETRS89 / UTM zone 32N"), 4258, 16032),
       ProjectedRow(27571, Str("sexagesimal origin"), 4258, 18081),
       ExtentRow(1262, "World", Neg(Num(90)), Neg(Num(180)), Num(90), Num(180)),
       CrsUsageRow(4258, 1262), CrsUsageRow(25832, 1262), CrsUsageRow(4326, 1262),
       CrsUsageRow(5001, 1262), CrsUsageRow(5003, 1262), CrsUsageRow(5005, 1262),
       OpRow(16032, 9807), OpRow(19986, 9820), OpRow(15001, 9999), OpRow(15002, 9807),
       OpRow(18081, 9807),
       ParamRow(18081, 8801, Dec(493), 9110), ParamRow(18081, 8802, Neg(Dec(23)), 9110),
       ParamRow(18081, 8805, Num(1), 9001), ParamRow(18081, 8806, Num(600000), 9001),
       ParamRow(18081, 8807, Num(200000), 9001),
       ParamRow(16032, 8801, Num(0), 9101), ParamRow(16032, 8802, Dec(2), 9101),
       ParamRow(16032, 8805, Num(1), 9001), ParamRow(16032, 8806, Num(500000), 9001),
       ParamRow(16032, 8807, Num(0), 9001),
       ParamRow(19986, 8801, Dec(9), 9101), ParamRow(19986, 8802, Dec(2), 9101),
       ParamRow(19986, 8806, Num(4321000), 9001),
       ParamRow(15001, 8801, Num(0), 9101), ParamRow(15001, 8802, Dec(2), 9101),
       ParamRow(15001, 8805, Num(1), 9001), ParamRow(15001, 8806, Num(0), 9001),
       ParamRow(15001, 8807, Num(0), 9001),
       ParamRow(15003, 8801, Dec(523), 9110) >>

Baseline == Load([n \in EpsgTables |-> NoTable], BaselineDump, 1)

\* The first code beyond the key type.
TooBig == U32Limit

\* The statements the dump may continue with.
RegistryDrops ==
    { DropStmt("epsg_ellipsoid"), DropStmt("epsg_unitofmeasure"),
      DropStmt("epsg_coordinatereferencesystem"),
      DropStmt("epsg_coordoperationparamvalue") }

\* A table created again is empty.
RegistryCreates ==
    { EpsgCreate("epsg_coordinatereferencesystem"), EpsgCreate("epsg_coordoperation") }

RegistryInserts ==
    { \* codes that do not fit the key type
      UnitRow(TooBig, Num(1), Num(1)),
      \* a unit row for the sexagesimal unit
      UnitRow(9110, Num(1), Num(1)),
      EllipsoidRow(TooBig, Num(6378137), NullExpr, Dec(2983), 9001),
      DatumRow(TooBig, 7030, 8901),
      MemberRow(TooBig, 6258),
      OpRow(TooBig, 9807),
      ParamRow(TooBig, 8801, Num(0), 9001),
      ParamRow(TooBig, 8801, Num(0), 9999),
      ExtentRow(TooBig, "Nowhere", Num(0), Num(0), Num(0), Num(0)),
      CrsUsageRow(TooBig, 1262),
      GeographicRow(TooBig, Str("Far"), "geographic 2D", Num(6258)),
      \* ellipsoid rows: neither b nor 1/f; a unit without unit row
      EllipsoidRow(7002, Num(6378137), NullExpr, NullExpr, 9001),
      EllipsoidRow(7003, Num(6378137), Num(6356752), NullExpr, 9999),
      \* an ellipsoid row with both b and 1/f
      EllipsoidRow(7004, Num(6378137), Dec(63567523), Dec(2983), 9001),
      \* a usage row of a datum whose code is also the code of a CRS, and a
      \* second extent with a second usage of a CRS
      UsageRow("epsg_datum", 4258, 1262),
      ExtentRow(1263, "Europe", Num(34), Neg(Num(16)), Num(84), Num(40)),
      CrsUsageRow(4258, 1263),
      \* the missing parameter of conversion 19986
      ParamRow(19986, 8807, Num(3210000), 9001),
      \* rows for 4326
      GeographicRow(4326, Str("WGS 84"), "geographic 2D", Num(6326)),
      GeographicRow(4326, Str("WGS 84"), "geographic 3D", Num(6326)),
      \* projected systems: good (without a name), on conversion 19986, and
      \* one for each reason to skip
      ProjectedRow(5000, NullExpr, 4326, 16032),
      ProjectedRow(3035, Str("ETRS89-extended / LAEA Europe"), 4258, 19986),
      ProjectedRow(5001, Str("base unknown"), 4999, 16032),
      ProjectedRow(5002, Str("datum unresolved"), 4807, 16032),
      ProjectedRow(5003, Str("no parameter values"), 4258, 15002),
      ProjectedRow(5004, Str("no operation"), 4258, 15003),
      ProjectedRow(5005, Str("method unsupported"), 4258, 15001),
      ProjectedRow(25832, Str("ETRS89 / UTM zone 32N"), 25832, 16032) }

\* ------------------------------------------------------ runtime dispatch

\* miniproj::get_projection over the generated dispatch table: None for a
\* code that is not a key, todo!() for a code that is.
get_projection(code, tables) ==
    IF code \notin DOMAIN tables.PROJECTIONS
    THEN [result |-> "None", what |-> ""]
    ELSE [result |-> "panic", what |-> "not yet implemented"]

\* The conversion type names of the parameter generator's IMPL_CONV.
ConversionNames ==
    << [code |-> 9807, conversion |-> "TransverseMercatorConversion"],
       [code |-> 9820, conversion |-> "LambertAzimuthalEqualAreaConversion"] >>

\* CONV_TYPES.get(&code): the conversion type name of the method of the code.
ConvTypeOf(code, tables) ==
    IF code \in DOMAIN tables.PROJECTIONS
       /\ \E i \in DOMAIN ConversionNames :
             ConversionNames[i].code = tables.PROJECTIONS[code].method
    THEN Some(ConversionNames[CHOOSE i \in DOMAIN ConversionNames :
                ConversionNames[i].code = tables.PROJECTIONS[code].method].conversion)
    ELSE None

\* Params::apply_named_conversion
apply_named_conversion(conversion) ==
    IF conversion \in {"TransverseMercatorConversion", "PolarStereographicAConversion"}
    THEN [result |-> "Some", what |-> conversion]
    ELSE [result |-> "panic", what |-> "Unknown conversion"]

\* get_coord_transform, its tables ELLIPSOID_CODES, PARAMETERS, NAMES and
\* CONV_TYPES read off the generated tables, ellipsoid_table the generated
\* ellipsoid map.
get_coord_transform(code, tables, ellipsoid_table) ==
    IF code = 4326 THEN [result |-> "Some", what |-> "ZeroTransformation"]
    ELSE IF code \notin DOMAIN tables.ELLIPSOIDS
    THEN [result |-> "panic", what |-> "called Option::unwrap on a None value"]
    ELSE IF \/ tables.ELLIPSOIDS[code] \notin DOMAIN ellipsoid_table
            \/ code \notin DOMAIN tables.PROJECTIONS
            \/ code \notin DOMAIN tables.NAMES
            \/ ConvTypeOf(code, tables) = None
    THEN [result |-> "None", what |-> ""]
    ELSE apply_named_conversion(ConvTypeOf(code, tables)[1])

\* The codes looked up at run time.
LookupCodes == {4326, 4258, 25832, 3035, 5000, 5005, 99999}

\* ------------------------------------------------- the build and its steps

Alive == pc = "loaded" /\ lookup = NoLookup

GetEllipsoids ==
    /\ Alive
    /\ ellipsoids = NoOutcome
    /\ ellipsoids' = get_ellipsoids(db)
    /\ pc' = IF ellipsoids'.kind = "panic" THEN "panic" ELSE pc
    /\ UNCHANGED <<db, stmt, nstmts, gen, ellsrc, lookup, call, netvars, graphvars>>

GenParameterConstructors ==
    /\ Alive
    /\ ellipsoids.kind = "ok"
    /\ gen = NoOutcome
    /\ gen' = gen_parameter_constructors(db, IMPL_CONV, ellipsoids.val)
    /\ pc' = IF gen'.kind = "panic" THEN "panic" ELSE pc
    /\ UNCHANGED <<db, stmt, nstmts, ellipsoids, ellsrc, lookup, call, netvars, graphvars>>

GenEllipsoidConstructors ==
    /\ Alive
    /\ ellsrc = NoOutcome
    /\ ellsrc' = gen_ellipsoid_constructors(db)
    /\ pc' = IF ellsrc'.kind = "panic" THEN "panic" ELSE pc
    /\ UNCHANGED <<db, stmt, nstmts, ellipsoids, gen, lookup, call, netvars, graphvars>>

\* The generated sources exist: the runtime can be compiled and called.
Built == Alive /\ gen.kind = "ok" /\ ellsrc.kind = "ok"

GetProjection ==
    /\ Built
    /\ \E code \in LookupCodes :
          LET r == get_projection(code, gen.val)
          IN  /\ lookup' = [fn |-> "get_projection", code |-> code, result |-> r.result]
              /\ pc' = IF r.result = "panic" THEN "panic" ELSE pc
    /\ UNCHANGED <<db, stmt, nstmts, ellipsoids, gen, ellsrc, call, netvars, graphvars>>

GetCoordTransform ==
    /\ Built
    /\ \E code \in LookupCodes :
          LET r == get_coord_transform(code, gen.val, ellsrc.val)
          IN  /\ lookup' = [fn |-> "get_coord_transform", code |-> code, result |-> r.result]
              /\ pc' = IF r.result = "panic" THEN "panic" ELSE pc
    /\ UNCHANGED <<db, stmt, nstmts, ellipsoids, gen, ellsrc, call, netvars, graphvars>>

LoadInsert == \E s \in RegistryInserts : ReadStep(s, MaxStmts)
LoadDrop == \E s \in RegistryDrops : ReadStep(s, MaxStmts)
LoadCreateTable == \E s \in RegistryCreates : ReadStep(s, MaxStmts)

Init ==
    /\ db = Baseline
    /\ stmt = NoStmt
    /\ nstmts = 0
    /\ pc = "reading"
    /\ ellipsoids = NoOutcome
    /\ gen = NoOutcome
    /\ ellsrc = NoOutcome
    /\ lookup = NoLookup
    /\ call = NoCall
    /\ NetUnused
    /\ GraphUnused

Next ==
    \/ LoadInsert
    \/ LoadDrop
    \/ LoadCreateTable
    \/ FinishRead
    \/ GetEllipsoids
    \/ GenParameterConstructors
    \/ GenEllipsoidConstructors
    \/ GetProjection
    \/ GetCoordTransform

Spec == Init /\ [][Next]_vars

\* --------------------------------------------------- C1 (runtime lookup)

\* C1, for the codes that are not keys: a lookup of a code that is not a key
\* of the generated dispatch table (and is not the constant 4326 of
\* get_coord_transform) returns None; in particular it does not panic.
C1_UnknownCodeIsNone ==
    (/\ lookup.fn # ""
     /\ lookup.code \notin DOMAIN gen.val.PROJECTIONS
     /\ lookup.code # 4326)
    => lookup.result = "None"

\* ----------------------------------------------------- C2 (4326 emitted)

\* C2: whenever the compiler succeeds, PROJECTIONS maps 4326 to the identity
\* projection, whatever rows the CRS table holds for 4326.
C2_Always4326 ==
    gen.kind = "ok" =>
        /\ 4326 \in DOMAIN gen.val.PROJECTIONS
        /\ gen.val.PROJECTIONS[4326].kind = "IdentityProjection"

\* ------------------------------------------------- C3 (registry totality)

\* C3: after a successful compile every key of PROJECTIONS is a key of NAMES,
\* with the placeholder name when the CRS has no name row, and every key that
\* is not mapped to the identity projection is a key of the ellipsoid-by-CRS
\* table.
C3_Totality ==
    gen.kind = "ok" =>
        \A c \in DOMAIN gen.val.PROJECTIONS :
            /\ c \in DOMAIN gen.val.NAMES
            /\ c \notin DOMAIN NamesTable(db).val => gen.val.NAMES[c] = PlaceholderName
            /\ gen.val.PROJECTIONS[c].kind # "IdentityProjection"
                  => c \in DOMAIN gen.val.ELLIPSOIDS

\* A successful compile that emitted a projected CRS without a name row.
C3_Witness ==
    /\ gen.kind = "ok"
    /\ \E c \in DOMAIN gen.val.PROJECTIONS :
          /\ gen.val.PROJECTIONS[c].kind = "Projection"
          /\ c \notin DOMAIN NamesTable(db).val
          /\ gen.val.NAMES[c] = PlaceholderName
          /\ c \in DOMAIN gen.val.ELLIPSOIDS

\* ---------------------------------------------------- C4 (skipped absent)

\* The reasons to skip a projected CRS, read off the tables of the registry.
BaseUnknown(crs, d) ==
    ~(/\ crs.base \in DOMAIN CrsTable(d).val
      /\ CrsTable(d).val[crs.base].kind = "Geographic2D")
DatumUnresolved(crs, d, ells) ==
    /\ ~BaseUnknown(crs, d)
    /\ LET datum == CrsTable(d).val[crs.base].datum
           members == IF datum \in DOMAIN DatumEnsembleMemberTable(d).val
                      THEN Range(DatumEnsembleMemberTable(d).val[datum]) ELSE {}
       IN  \A m \in {datum} \cup members : m \notin DOMAIN DatumTable(d, ells).val
NoParameterValues(crs, d) == crs.conversion \notin DOMAIN ParamValues(d, Units(d).val).val
NoOperation(crs, d) == crs.conversion \notin DOMAIN OpTable(d).val
MethodUnsupported(crs, d) ==
    /\ ~NoOperation(crs, d)
    /\ OpTable(d).val[crs.conversion] \notin {IMPL_CONV[i].v : i \in DOMAIN IMPL_CONV}

Skipped(c, d, ells) ==
    LET crs == CrsTable(d).val[c]
    IN  /\ crs.kind = "Projected"
        /\ \/ BaseUnknown(crs, d)
           \/ DatumUnresolved(crs, d, ells)
           \/ NoParameterValues(crs, d)
           \/ NoOperation(crs, d)
           \/ MethodUnsupported(crs, d)

InNoTable(c, tables) ==
    /\ c \notin DOMAIN tables.PROJECTIONS
    /\ c \notin DOMAIN tables.ELLIPSOIDS
    /\ c \notin DOMAIN tables.NAMES
    /\ c \notin DOMAIN tables.AREAS

\* C4: after a successful compile a projected CRS with a reason to be skipped
\* is a key of none of the four generated tables.
C4_SkippedAbsent ==
    gen.kind = "ok" =>
        \A c \in DOMAIN CrsTable(db).val :
            Skipped(c, db, ellipsoids.val) => InNoTable(c, gen.val)

\* A successful compile over a registry with a skipped projected CRS that has
\* a name row and a usage row, and whose method is the reason.
C4_Witness ==
    /\ gen.kind = "ok"
    /\ \E c \in DOMAIN CrsTable(db).val :
          /\ Skipped(c, db, ellipsoids.val)
          /\ MethodUnsupported(CrsTable(db).val[c], db)
          /\ c \in DOMAIN NamesTable(db).val
          /\ c \in DOMAIN UsagesTable(db, ExtentsTable(db).val).val

\* ------------------------------------------- C5 (missing parameter skipped)

\* A projected CRS with no reason to be skipped whose conversion lacks a
\* parameter code its method's constructor looks up.
LacksRequired(c, d, ells) ==
    LET crs == CrsTable(d).val[c]
    IN  /\ crs.kind = "Projected"
        /\ ~Skipped(c, d, ells)
        /\ LET codes == IMPL_CONV[FindSupported(IMPL_CONV, OpTable(d).val[crs.conversion])].codes
               given == ParamValues(d, Units(d).val).val[crs.conversion]
           IN  \E i \in DOMAIN codes : \A j \in DOMAIN given : given[j][1] # codes[i]

\* C5: when the compiler has run over a registry with such a CRS, it has
\* returned its output and the CRS is in none of the generated tables.
C5_MissingParameterSkipped ==
    (/\ gen # NoOutcome
     /\ TableRowsOf(db, "epsg_coordinatereferencesystem", CrsSelect).ok
     /\ \E c \in DOMAIN CrsTable(db).val : LacksRequired(c, db, ellipsoids.val))
    => /\ gen.kind = "ok"
       /\ \A c \in DOMAIN CrsTable(db).val :
             LacksRequired(c, db, ellipsoids.val) => InNoTable(c, gen.val)

\* ------------------------------------------ C6 (failures are error values)

\* The malformations of a registry the claim lists.
TableAbsent(d) == \E t \in EpsgTables : ~d[t].exists
EllipsoidUnitMissing(d) ==
    LET ell == TableRowsOf(d, "epsg_ellipsoid", EllipsoidSelect)
        uom == TableRowsOf(d, "epsg_unitofmeasure", UomSelect)
    IN  /\ ell.ok /\ uom.ok
        /\ \E i \in DOMAIN ell.rows :
              \A j \in DOMAIN uom.rows : uom.rows[j][1] # ell.rows[i][5]
EllipsoidWithoutAxis(d) ==
    LET ell == TableRowsOf(d, "epsg_ellipsoid", EllipsoidSelect)
    IN  ell.ok /\ \E i \in DOMAIN ell.rows : ell.rows[i][3].k = "None" /\ ell.rows[i][4].k = "None"
EmptyCrsTable(d) ==
    d["epsg_coordinatereferencesystem"].exists /\ DOMAIN CrsTable(d).val = {}
EmptyOpTable(d) ==
    d["epsg_coordoperation"].exists /\ DOMAIN OpTable(d).val = {}

Malformed(d) ==
    \/ TableAbsent(d)
    \/ EllipsoidUnitMissing(d)
    \/ EllipsoidWithoutAxis(d)
    \/ EmptyCrsTable(d)
    \/ EmptyOpTable(d)

\* C6: over a registry malformed in one of these ways none of the three
\* compiler functions ends in a panic.
C6_FailuresAreErrors ==
    Malformed(db) =>
        /\ ellipsoids.kind # "panic"
        /\ ellsrc.kind # "panic"
        /\ gen.kind # "panic"

\* ------------------------------------------------ C7 (codes that overflow)

\* The integer code columns the compiler reads.
CodeColumns ==
    { <<"epsg_coordinatereferencesystem", "coord_ref_sys_code">>,
      <<"epsg_coordinatereferencesystem", "base_crs_code">>,
      <<"epsg_coordinatereferencesystem", "projection_conv_code">>,
      <<"epsg_coordinatereferencesystem", "datum_code">>,
      <<"epsg_datum", "datum_code">>,
      <<"epsg_unitofmeasure", "uom_code">>,
      <<"epsg_coordoperation", "coord_op_code">>,
      <<"epsg_coordoperation", "coord_op_method_code">>,
      <<"epsg_coordoperationparamvalue", "coord_op_code">>,
      <<"epsg_coordoperationparamvalue", "parameter_code">>,
      <<"epsg_coordoperationparamvalue", "uom_code">>,
      <<"epsg_usage", "object_code">>,
      <<"epsg_usage", "extent_code">>,
      <<"epsg_extent", "extent_code">> }

\* Some row carries a code that does not fit the key type.
HasOverflowingCode(d) ==
    \E tc \in CodeColumns :
        /\ d[tc[1]].exists
        /\ tc[2] \in DOMAIN d[tc[1]].columns
        /\ \E i \in 1..Len(d[tc[1]].columns[tc[2]].data) :
              LET f == FieldAt(d[tc[1]].columns[tc[2]], i)
              IN  f.k = "IntLike" /\ ~FitsU32(f.n)

\* C7: when the compiler has run over a registry with such a code, it has
\* returned an error.
C7_OverflowIsError ==
    (gen # NoOutcome /\ HasOverflowingCode(db)) => gen.kind = "err"

\* ------------------------------------------- parameter-free projections

\* An f64 angle or coordinate as m * (pi/180)^p: f64::to_radians multiplies by
\* pi/180, f64::to_degrees by 180/pi; zero stays zero. Rounding is left out.
Value(m, p) == [m |-> m, p |-> IF m = 0 THEN 0 ELSE p, nan |-> FALSE]
\* f64::NAN
NaN == [m |-> 0, p |-> 0, nan |-> TRUE]
\* f64::to_radians and f64::to_degrees: a multiplication, NaN for NaN.
to_radians(x) == IF x.nan THEN NaN ELSE Value(x.m, x.p + 1)
to_degrees(x) == IF x.nan THEN NaN ELSE Value(x.m, x.p - 1)

\* IdentityProjection::projected_to_rad, had a NaN in one coordinate made both
\* coordinates of the result NaN.
IdentityProjection_projected_to_rad_Poisoned(x, y) ==
    IF x.nan \/ y.nan THEN <<NaN, NaN>> ELSE <<to_radians(x), to_radians(y)>>

\* impl Projection for IdentityProjection, had the radian functions passed
\* their arguments through.
IdentityProjection_rad_to_projected_NoOp(lon, lat) == <<lon, lat>>

\* impl Projection for IdentityProjection
IdentityProjection_projected_to_rad(x, y) == <<to_radians(x), to_radians(y)>>
IdentityProjection_rad_to_projected(lon, lat) == <<to_degrees(lon), to_degrees(lat)>>
IdentityProjection_projected_to_deg(x, y) == <<x, y>>
IdentityProjection_deg_to_projected(lon, lat) == <<lon, lat>>

\* impl CoordTransform for ZeroTransformation
ZeroTransformation_to_rad(x, y) == <<to_radians(x), to_radians(y)>>
ZeroTransformation_from_rad(lon, lat) == <<to_degrees(lon), to_degrees(lat)>>
ZeroTransformation_to_deg(x, y) == <<x, y>>
ZeroTransformation_from_deg(lon, lat) == <<lon, lat>>

\* ----------------------------------------------- C17 (Greenwich datums)

\* The rows of the datum table and of the ensemble member table, as stored.
DatumRows(d) ==
    TableRowsOf(d, "epsg_datum", <<"datum_code", "ellipsoid_code", "prime_meridian_code">>).rows
MemberRows(d) ==
    TableRowsOf(d, "epsg_datumensemblemember", <<"datum_ensemble_code", "datum_code">>).rows

\* The datums a datum code stands for: itself and, read as the code of an
\* ensemble, the members of that ensemble in row order.
DatumCandidates(d, datum) ==
    LET rows == SelectSeq(MemberRows(d), LAMBDA row : row[1] = IntField(datum))
    IN  <<datum>> \o [i \in DOMAIN rows |-> rows[i][2].n]

\* Some row of the datum table gives the datum code the prime meridian 8901.
OnGreenwich(d, datum) ==
    \E i \in DOMAIN DatumRows(d) :
        DatumRows(d)[i][1] = IntField(datum) /\ DatumRows(d)[i][3] = IntField(8901)

\* The projected systems of the registry whose base is a geographic 2D system.
ProjectedOnBase(d) ==
    {c \in DOMAIN CrsTable(d).val :
        /\ CrsTable(d).val[c].kind = "Projected"
        /\ ~BaseUnknown(CrsTable(d).val[c], d)}

BaseDatum(d, c) == CrsTable(d).val[CrsTable(d).val[c].base].datum

\* C17: after a successful compile, a projected CRS whose base CRS's datum
\* and every member of the ensemble of that code are on a prime meridian other
\* than 8901 is no key of PROJECTIONS.
C17_GreenwichOnly ==
    gen.kind = "ok" =>
        \A c \in ProjectedOnBase(db) :
            (\A m \in Range(DatumCandidates(db, BaseDatum(db, c))) : ~OnGreenwich(db, m))
                => c \notin DOMAIN gen.val.PROJECTIONS

\* A successful compile over a registry with a projected CRS on a datum of the
\* Paris meridian (8903) whose conversion is complete and supported.
C17_Witness ==
    /\ gen.kind = "ok"
    /\ \E c \in ProjectedOnBase(db) :
          /\ \A m \in Range(DatumCandidates(db, BaseDatum(db, c))) : ~OnGreenwich(db, m)
          /\ \E i \in DOMAIN DatumRows(db) :
                /\ DatumRows(db)[i][1] = IntField(BaseDatum(db, c))
                /\ DatumRows(db)[i][3] = IntField(8903)
          /\ ~NoParameterValues(CrsTable(db).val[c], db)
          /\ ~NoOperation(CrsTable(db).val[c], db)
          /\ ~MethodUnsupported(CrsTable(db).val[c], db)

\* --------------------------------------------- C18 (datum resolution)

\* The rows of the datum table that make the datum code an accepted datum:
\* prime meridian 8901 and an ellipsoid that get_ellipsoids built.
AcceptingRows(d, datum, ells) ==
    {i \in DOMAIN DatumRows(d) :
        /\ DatumRows(d)[i][1] = IntField(datum)
        /\ DatumRows(d)[i][3] = IntField(8901)
        /\ DatumRows(d)[i][2].k = "IntLike"
        /\ DatumRows(d)[i][2].n \in DOMAIN ells}

Accepted(d, datum, ells) == AcceptingRows(d, datum, ells) # {}

\* The ellipsoid code of an accepted datum (of its last accepting row).
EllipsoidOfDatum(d, datum, ells) ==
    LET last == CHOOSE i \in AcceptingRows(d, datum, ells) :
                    \A j \in AcceptingRows(d, datum, ells) : j <= i
    IN  DatumRows(d)[last][2].n

\* The ellipsoid code C18 names for a base datum code: that of the datum when
\* it is accepted, else that of the first accepted member of the ensemble of
\* this code in row order, else none.
ExpectedEllipsoid(d, datum, ells) ==
    IF Accepted(d, datum, ells) THEN Some(EllipsoidOfDatum(d, datum, ells))
    ELSE LET members == SubSeq(DatumCandidates(d, datum), 2, Len(DatumCandidates(d, datum)))
             acc == SelectSeq(members, LAMBDA m : Accepted(d, m, ells))
         IN  IF acc = <<>> THEN None ELSE Some(EllipsoidOfDatum(d, acc[1], ells))

\* C18: after a successful compile, a projected CRS (on a geographic 2D base)
\* for which neither the base datum nor a member of its ensemble is accepted
\* is skipped, and every other one that was emitted has in ELLIPSOIDS the
\* ellipsoid of the base datum when that is accepted, else of the first
\* accepted member of the ensemble in registry row order.
C18_EllipsoidResolution ==
    gen.kind = "ok" =>
        \A c \in ProjectedOnBase(db) :
            LET e == ExpectedEllipsoid(db, BaseDatum(db, c), ellipsoids.val)
            IN  /\ e = None => c \notin DOMAIN gen.val.PROJECTIONS
                /\ c \in DOMAIN gen.val.PROJECTIONS =>
                      /\ e # None
                      /\ c \in DOMAIN gen.val.ELLIPSOIDS
                      /\ gen.val.ELLIPSOIDS[c] = e[1]

\* A projected CRS was emitted whose base datum is the code of an ensemble,
\* not of an accepted datum; the first member of the ensemble is not accepted
\* and two later members with different ellipsoids are.
C18_Witness ==
    /\ gen.kind = "ok"
    /\ \E c \in ProjectedOnBase(db) :
          LET cands == DatumCandidates(db, BaseDatum(db, c))
          IN  /\ c \in DOMAIN gen.val.ELLIPSOIDS
              /\ ~Accepted(db, cands[1], ellipsoids.val)
              /\ Len(cands) >= 4
              /\ ~Accepted(db, cands[2], ellipsoids.val)
              /\ Accepted(db, cands[3], ellipsoids.val)
              /\ Accepted(db, cands[4], ellipsoids.val)
              /\ EllipsoidOfDatum(db, cands[3], ellipsoids.val)
                    # EllipsoidOfDatum(db, cands[4], ellipsoids.val)

\* ------------------------------------------------ C19 (ellipsoid rows)

EllipsoidRows(d) == TableRowsOf(d, "epsg_ellipsoid", EllipsoidSelect).rows
UnitRows(d) == TableRowsOf(d, "epsg_unitofmeasure", UomSelect).rows

\* Both tables exist and every ellipsoid row has a code that fits the key
\* type, a semi-major axis and a unit whose row gives both factors.
EllipsoidsJoinable(d) ==
    /\ d["epsg_ellipsoid"].exists
    /\ d["epsg_unitofmeasure"].exists
    /\ \A i \in DOMAIN EllipsoidRows(d) :
          LET row == EllipsoidRows(d)[i]
          IN  /\ row[1].k = "IntLike" /\ FitsU32(row[1].n)
              /\ row[2].k = "Double"
              /\ row[5].k = "IntLike"
              /\ FindUom(UnitRows(d), row[5].n) # 0
              /\ UnitRows(d)[FindUom(UnitRows(d), row[5].n)][2].k = "Double"
              /\ UnitRows(d)[FindUom(UnitRows(d), row[5].n)][3].k = "Double"

\* The ellipsoids C19 allows for a joinable row: from (a, b) when b is
\* present, from (a, 1/f) when 1/f is present, the axes scaled by the unit.
EllipsoidsFor(d, row) ==
    LET u == UnitRows(d)[FindUom(UnitRows(d), row[5].n)]
        a == Scaled(row[2].n, u[2].n, u[3].n)
    IN  (IF row[3].k = "Double"
         THEN {from_a_b(a, Scaled(row[3].n, u[2].n, u[3].n))} ELSE {})
        \cup (IF row[4].k = "Double" THEN {from_a_f_inv(a, row[4].n)} ELSE {})

\* C19: over a registry whose ellipsoid rows can all be joined to a unit,
\* get_ellipsoids and gen_ellipsoid_constructors fail exactly when some row
\* has neither b nor 1/f; otherwise they map the code of every row to the
\* ellipsoid built from (a, b) when b is present and from (a, 1/f) when 1/f
\* is present, the axes scaled by factor_b / factor_c.
C19_EllipsoidRows ==
    \A o \in {ellipsoids, ellsrc} :
        (o.kind # "none" /\ EllipsoidsJoinable(db)) =>
            LET rows == EllipsoidRows(db)
            IN  IF \E i \in DOMAIN rows : EllipsoidsFor(db, rows[i]) = {}
                THEN o.kind # "ok"
                ELSE /\ o.kind = "ok"
                     /\ DOMAIN o.val = {rows[i][1].n : i \in DOMAIN rows}
                     /\ \A code \in DOMAIN o.val :
                           \E i \in DOMAIN rows :
                               /\ rows[i][1].n = code
                               /\ o.val[code] \in EllipsoidsFor(db, rows[i])

\* ------------------------------------------------------- C20 (areas)

UsageRows(d) ==
    TableRowsOf(d, "epsg_usage", <<"object_table_name", "object_code", "extent_code">>).rows
ExtentBoxRows(d) ==
    TableRowsOf(d, "epsg_extent",
                <<"extent_code", "bbox_east_bound_lon", "bbox_north_bound_lat",
                  "bbox_west_bound_lon", "bbox_south_bound_lat">>).rows

\* The bounding box [east, north, west, south] of an extent code: of its last
\* row that has all four bounds; none when there is no such row.
BoxOf(d, extent) ==
    LET rows == ExtentBoxRows(d)
        good == {i \in DOMAIN rows :
                    /\ rows[i][1] = IntField(extent)
                    /\ \A k \in 2..5 : rows[i][k].k = "Double"}
        last == CHOOSE i \in good : \A j \in good : j <= i
    IN  IF good = {} THEN None
        ELSE Some(<<rows[last][2].n, rows[last][3].n, rows[last][4].n, rows[last][5].n>>)

\* The boxes of the extents that the usage rows of the CRS table's objects
\* link to the code, in usage-row order.
AreasOfCrs(d, code) ==
    LET rows == SelectSeq(UsageRows(d),
                    LAMBDA r : /\ r[1] = StringField("epsg_coordinatereferencesystem")
                               /\ r[2] = IntField(code)
                               /\ r[3].k = "IntLike"
                               /\ BoxOf(d, r[3].n) # None)
    IN  [i \in DOMAIN rows |-> BoxOf(d, rows[i][3].n)[1]]

\* C20: after a successful compile, AREAS maps every emitted CRS code that has
\* usage rows of its own to the boxes [east, north, west, south] of the
\* extents those rows link to it, in usage-row order, and holds no box for a
\* code from a usage row of an object of another kind with the same code.
C20_AreasOfCrs ==
    gen.kind = "ok" =>
        \A c \in DOMAIN gen.val.PROJECTIONS :
            IF AreasOfCrs(db, c) = <<>>
            THEN c \notin DOMAIN gen.val.AREAS
            ELSE /\ c \in DOMAIN gen.val.AREAS
                 /\ gen.val.AREAS[c] = AreasOfCrs(db, c)

\* ------------------------------------------- C21 (sexagesimal angles)

ParamRows(d) ==
    TableRowsOf(d, "epsg_coordoperationparamvalue",
                <<"coord_op_code", "parameter_code", "parameter_value", "uom_code">>).rows

\* sign * (D + M/60 + S/3600) of a value given in tenths, in arc minutes:
\* D the whole degrees, M the first two fractional digits (of which the value
\* has one), S the next two (none).
Sexagesimal(v) ==
    LET a == IF v < 0 THEN 0 - v ELSE v
        D == a \div 10
        M == (a - D * 10) * 10
    IN  (IF v < 0 THEN 0 - 1 ELSE 1) * (D * 60 + M)

\* The value C21 names for a parameter value row: the sexagesimal angle for
\* unit 9110, the value times factor_b / factor_c of its unit otherwise.
ConvertedValue(d, row) ==
    IF row[4].n = 9110 THEN [dms |-> TRUE, n |-> Sexagesimal(row[3].n)]
    ELSE LET u == UnitRows(d)[FindUom(UnitRows(d), row[4].n)]
         IN  [dms |-> FALSE, n |-> (row[3].n * u[2].n) \div u[3].n]

\* The rows of a conversion for a parameter code that carry a value and a
\* unit that is 9110 or has a unit row with both factors.
ValueRows(d, conversion, parameter) ==
    SelectSeq(ParamRows(d),
        LAMBDA row : /\ row[1] = IntField(conversion)
                     /\ row[2] = IntField(parameter)
                     /\ row[3].k = "Double"
                     /\ row[4].k = "IntLike"
                     /\ \/ row[4].n = 9110
                        \/ /\ FindUom(UnitRows(d), row[4].n) # 0
                           /\ UnitRows(d)[FindUom(UnitRows(d), row[4].n)][2].k = "Double"
                           /\ UnitRows(d)[FindUom(UnitRows(d), row[4].n)][3].k = "Double")

\* C21: after a successful compile every parameter of every emitted
\* projection is the value of its first row converted as C21 says: with the
\* sexagesimal decoder when the row's unit is 9110, whether or not the units
\* table has a row for 9110, and by factor_b / factor_c of its unit otherwise.
C21_SexagesimalDecoded ==
    gen.kind = "ok" =>
        \A c \in DOMAIN gen.val.PROJECTIONS :
            LET p == gen.val.PROJECTIONS[c]
                codes == IMPL_CONV[FindSupported(IMPL_CONV, p.method)].codes
                conversion == CrsTable(db).val[c].conversion
            IN  p.kind = "Projection" =>
                    \A i \in DOMAIN codes :
                        /\ ValueRows(db, conversion, codes[i]) # <<>>
                        /\ p.params[i] =
                              ConvertedValue(db, ValueRows(db, conversion, codes[i])[1])

\* A projection with an angle of unit 9110 was emitted from a registry whose
\* units table has a row for 9110.
C21_Witness ==
    /\ gen.kind = "ok"
    /\ FindUom(UnitRows(db), 9110) # 0
    /\ \E c \in DOMAIN gen.val.PROJECTIONS :
          /\ gen.val.PROJECTIONS[c].kind = "Projection"
          /\ \E i \in DOMAIN gen.val.PROJECTIONS[c].params :
                /\ gen.val.PROJECTIONS[c].params[i].dms
                /\ gen.val.PROJECTIONS[c].params[i].n < 0

\* ------------------------------------------------------------- ellipsoid

\* The f64 values of the ellipsoid constructors as exact fractions n/d, d > 0,
\* in lowest terms (rounding is not modelled).
RECURSIVE Gcd(_, _)
Gcd(x, y) == IF y = 0 THEN x ELSE Gcd(y, x % y)
Abs(x) == IF x < 0 THEN 0 - x ELSE x
Rat(n, d) ==
    LET g == Gcd(Abs(n), Abs(d))
        sg == IF d < 0 THEN 0 - 1 ELSE 1
    IN  [d |-> sg * (d \div g), n |-> sg * (n \div g)]
RSub(x, y) == Rat(x.n * y.d - y.n * x.d, x.d * y.d)
RAdd(x, y) == Rat(x.n * y.d + y.n * x.d, x.d * y.d)
RMul(x, y) == Rat(x.n * y.n, x.d * y.d)
\* x / y for y # 0
RDiv(x, y) == Rat(x.n * y.d, x.d * y.n)
RLess(x, y) == x.n * y.d < y.n * x.d

\* f64::sqrt: NaN for a negative argument, else the nonnegative number whose
\* square is sq.
Sqrt(x) == [nan |-> x.n < 0, sq |-> x]

\* Ellipsoid::from_a_b with every field, a # 0.
Ellipsoid_from_a_b(a, b) ==
    LET f == RDiv(RSub(a, b), a)
        e_squared == RSub(RMul(Rat(2, 1), f), RMul(f, f))
    IN  [a |-> a, b |-> b, e |-> Sqrt(e_squared), f |-> f, e_squared |-> e_squared]

\* Ellipsoid::from_a_f_inv with every field, f_inv # 0.
Ellipsoid_from_a_f_inv(a, f_inv) ==
    LET f == RDiv(Rat(1, 1), f_inv)
        e_squared == RSub(RDiv(Rat(2, 1), f_inv), RDiv(Rat(1, 1), RMul(f_inv, f_inv)))
    IN  [a |-> a, b |-> RSub(a, RDiv(a, f_inv)), e |-> Sqrt(e_squared), f |-> f,
         e_squared |-> e_squared]

\* ---------------------------------------------------- custom projections

\* GetterContstruct::with_db_getter of a family: each code the family needs is
\* asked of the getter, and a code the getter does not supply ends the
\* construction with None. A getter is the set of codes it supplies.
with_db_getter(codes, getter) ==
    IF \A i \in DOMAIN codes : codes[i] \in getter THEN "Some" ELSE "None"

\* ops::custom_projection
ops_custom_projection(pmethod_code, getter) ==
    CASE pmethod_code = 9807 -> with_db_getter(TransverseMercator_codes, getter)
      [] pmethod_code = 9810 -> with_db_getter(PolarStereographicA_codes, getter)
      [] pmethod_code = 9802 -> with_db_getter(LambertConic2SP_codes, getter)
      [] pmethod_code = 1024 -> with_db_getter(PopVisPseudoMercator_codes, getter)
      [] pmethod_code = 9801 -> with_db_getter(LambertConic1SPA_codes, getter)
      [] pmethod_code = 9809 -> with_db_getter(ObliqueStereographic_codes, getter)
      [] pmethod_code = 9822 -> with_db_getter(AlbersEqualArea_codes, getter)
      [] OTHER -> "None"

\* methods::param_builder
param_builder(pmethod_code, getter) ==
    CASE pmethod_code = 9807 -> with_db_getter(TransverseMercator_codes, getter)
      [] pmethod_code = 9810 -> with_db_getter(PolarStereographicA_codes, getter)
      [] pmethod_code = 9802 -> with_db_getter(LambertConic2SP_codes, getter)
      [] pmethod_code = 1024 -> with_db_getter(PopVisPseudoMercator_codes, getter)
      [] pmethod_code = 9801 -> with_db_getter(LambertConic1SPA_codes, getter)
      [] pmethod_code = 9809 -> with_db_getter(ObliqueStereographic_codes, getter)
      [] pmethod_code = 9822 -> with_db_getter(AlbersEqualArea_codes, getter)
      [] pmethod_code = 9820 -> with_db_getter(LambertAzimuthalEqualArea_codes, getter)
      [] OTHER -> "None"

\* methods::custom_projection
methods_custom_projection(pmethod_code, getter) == param_builder(pmethod_code, getter)

\* ------------------------------------------------- polar stereographic A

\* Angles are whole degrees standing for their radian values. A nonnegative
\* length has one of three sizes: "Zero", "One" (the finite positive length
\* that latitude 0 gives) and "Huge" (what f64::tan gives at a quarter turn).
\* A positive finite factor (t_rho_factor, the power of the eccentricity
\* term) leaves the size unchanged.
PolarLatitudes == {0 - 90, 0, 90}
PolarLongitudes == {0 - 90, 0, 90, 180}
PolarOrigins == {0, 90}
Sizes == {"Zero", "One", "Huge"}

\* x brought into -179 .. 180
WrapDeg(x) == ((x + 179) % 360) - 179

\* f64::tan, f64::atan on the sizes
TanDeg(x) == CASE x = 0 -> "Zero" [] x = 45 -> "One" [] x = 90 -> "Huge"
AtanDeg(t) == CASE t = "Zero" -> 0 [] t = "One" -> 45 [] t = "Huge" -> 90

\* f64::sin, f64::cos of a multiple of a quarter turn
SinDeg(x) ==
    CASE WrapDeg(x) = 90 -> 1 [] WrapDeg(x) = 0 - 90 -> 0 - 1 [] OTHER -> 0
CosDeg(x) ==
    CASE WrapDeg(x) = 0 -> 1 [] WrapDeg(x) = 180 -> 0 - 1 [] OTHER -> 0

\* f64::atan2(y, x) of a direction whose components are -1, 0 or 1
Atan2Deg(y, x) ==
    CASE y = 0 /\ x >= 0 -> 0
      [] y = 0 /\ x < 0 -> 180
      [] y > 0 /\ x = 0 -> 90
      [] y < 0 /\ x = 0 -> 0 - 90
      [] y > 0 /\ x > 0 -> 45
      [] y > 0 /\ x < 0 -> 135
      [] y < 0 /\ x > 0 -> 0 - 45
      [] y < 0 /\ x < 0 -> 0 - 135

\* A projected point is <<direction east, direction north, size>> of its
\* offset from (false_e, false_n).
PolarPoint(rho, sin, cos) ==
    IF rho = "Zero" THEN <<0, 0, rho>> ELSE <<sin, cos, rho>>
PolarPoints ==
    {<<0, 0, "Zero">>} \cup
    ({<<e, n, r>> : e \in {0 - 1, 0, 1}, n \in {0 - 1, 0, 1}, r \in {"One", "Huge"}}
     \ {<<0, 0, "One">>, <<0, 0, "Huge">>})

\* PolarStereographicAProjection::rad_to_projected
PolarStereographicA_rad_to_projected(lat_orig, lon_orig, longitude, latitude) ==
    IF lat_orig < 0
    THEN LET rho == TanDeg(45 - latitude \div 2)
         IN  PolarPoint(rho, SinDeg(longitude - lon_orig),
                        0 - CosDeg(longitude - lon_orig))
    ELSE LET rho == TanDeg(45 + latitude \div 2)
         IN  PolarPoint(rho, SinDeg(longitude - lon_orig),
                        CosDeg(longitude - lon_orig))

\* PolarStereographicAProjection::projected_to_rad; the result is
\* <<lambda, phi>>. At chi = -90, 0, 90 the series terms sin(2 chi) ..
\* sin(8 chi) vanish, so phi is chi.
PolarStereographicA_projected_to_rad(lat_orig, lon_orig, point) ==
    LET t_ == point[3]
        chi == IF lat_orig < 0 THEN 90 - 2 * AtanDeg(t_) ELSE 2 * AtanDeg(t_) - 90
        lambda == IF lat_orig < 0
                  THEN lon_orig + Atan2Deg(point[1], 0 - point[2])
                  ELSE lon_orig + Atan2Deg(point[1], point[2])
    IN  <<lambda, chi>>

\* ------------------------------------------------ time-dependent Helmert

\* The fifteen parameters of a time-dependent Helmert transformation; the
\* f64 values are whole numbers, so every sum and product is exact.
HelmertTimeDependent(base, rate, dS, ddS, reference_epoch) ==
    [dS |-> dS, ddS |-> ddS, reference_epoch |-> reference_epoch,
     drX |-> rate[1], drY |-> rate[2], drZ |-> rate[3],
     dtX |-> rate[4], dtY |-> rate[5], dtZ |-> rate[6],
     rX |-> base[1], rY |-> base[2], rZ |-> base[3],
     tX |-> base[4], tY |-> base[5], tZ |-> base[6]]

\* HelmertPositionVectorTimeDependent::at_epoch
HelmertPositionVectorTimeDependent_at_epoch(self, epoch) ==
    LET dt == epoch - self.reference_epoch
    IN  [M |-> 1 + self.dS + self.ddS * dt,
         rX |-> self.rX + self.drX * dt,
         rY |-> self.rY + self.drY * dt,
         rZ |-> self.rZ + self.drZ * dt,
         tX |-> self.tX + self.dtX * dt,
         tY |-> self.tY + self.dtY * dt,
         tZ |-> self.tZ + self.dtZ * dt]

\* HelmertCoordinateFrameTimeDependent::at_epoch
HelmertCoordinateFrameTimeDependent_at_epoch(self, epoch) ==
    LET dt == epoch - self.reference_epoch
    IN  [M |-> 1 + self.dS + self.ddS * dt,
         rX |-> self.rX + self.drX * dt,
         rY |-> self.rY + self.drY * dt,
         rZ |-> self.rZ + self.drZ * dt,
         tX |-> self.tX + self.dtX * dt,
         tY |-> self.tY * self.dtY * dt,
         tZ |-> self.tZ + self.dtZ * dt]

\* ------------------------------------- authalic latitude to geodetic latitude

\* The latitude that an inverse adds to the authalic latitude beta_ is a sum
\* of terms factor * sin(mul * beta_ + add); a term is <<factor, mul, add>>
\* with the factor an exact fraction.
powi(x, k) == IF k = 2 THEN RMul(x, x) ELSE RMul(x, RMul(x, x))

\* LambertAzimuthalEqualAreaProjection::projected_to_rad, the terms added to
\* beta_
LambertAzimuthalEqualArea_latitude_terms(ellipsoid_e_squared) ==
    << <<RAdd(RAdd(RDiv(ellipsoid_e_squared, Rat(3, 1)),
                   RMul(Rat(31, 180), powi(ellipsoid_e_squared, 2))),
              RMul(Rat(517, 5040), powi(ellipsoid_e_squared, 3))), 2, 0>>,
       <<RAdd(RMul(Rat(23, 360), powi(ellipsoid_e_squared, 2)),
              RMul(Rat(251, 3780), powi(ellipsoid_e_squared, 3))), 4, 0>>,
       <<RMul(Rat(761, 45360), powi(ellipsoid_e_squared, 3)), 1, 6>> >>

\* AlbersEqualAreaProjection::new (beta_fac_sin2, beta_fac_sin4,
\* beta_fac_sin6) and the terms projected_to_rad adds to beta_
AlbersEqualArea_latitude_terms(e_squared) ==
    LET beta_fac_sin2 ==
            RAdd(RAdd(RDiv(e_squared, Rat(3, 1)),
                      RDiv(RMul(Rat(31, 1), powi(e_squared, 2)), Rat(180, 1))),
                 RDiv(RMul(Rat(517, 1), powi(e_squared, 3)), Rat(5040, 1)))
        beta_fac_sin4 ==
            RAdd(RDiv(RMul(Rat(23, 1), powi(e_squared, 2)), Rat(360, 1)),
                 RDiv(RMul(Rat(251, 1), powi(e_squared, 3)), Rat(3708, 1)))
        beta_fac_sin6 == RDiv(RMul(Rat(761, 1), powi(e_squared, 3)), Rat(45360, 1))
    IN  << <<beta_fac_sin2, 2, 0>>, <<beta_fac_sin4, 4, 0>>, <<beta_fac_sin6, 6, 0>> >>

\* ------------------------------------------- the calls of the pure functions

\* The coordinates tried: zero, two nonzero values in degrees, one in radians,
\* and NaN.
Coordinates == {Value(0, 0), Value(9, 0), Value(0 - 45, 0), Value(90, 1), NaN}

MethodCodes == {9807, 9820, 9810, 9802, 1024, 9801, 9809, 9822, 9999}

Getters ==
    { {}, {8801, 8802, 8806, 8807}, {8801, 8802, 8805, 8806, 8807},
      {8801, 8802, 8805, 8806}, {8821, 8822, 8823, 8824, 8826, 8827},
      {8821, 8822, 8823, 8824, 8826} }

Called(fn, args, result) ==
    /\ pc = "calling"
    /\ call' = [fn |-> fn, args |-> args, result |-> result]
    /\ UNCHANGED <<db, stmt, nstmts, pc, ellipsoids, gen, ellsrc, lookup, netvars, graphvars>>

CallProjectedToRad ==
    \E x, y \in Coordinates :
        \/ Called("IdentityProjection::projected_to_rad", <<x, y>>,
                  IdentityProjection_projected_to_rad(x, y))
        \/ Called("ZeroTransformation::to_rad", <<x, y>>, ZeroTransformation_to_rad(x, y))

CallRadToProjected ==
    \E lon, lat \in Coordinates :
        \/ Called("IdentityProjection::rad_to_projected", <<lon, lat>>,
                  IdentityProjection_rad_to_projected(lon, lat))
        \/ Called("ZeroTransformation::from_rad", <<lon, lat>>,
                  ZeroTransformation_from_rad(lon, lat))

CallProjectedToDeg ==
    \E x, y \in Coordinates :
        \/ Called("IdentityProjection::projected_to_deg", <<x, y>>,
                  IdentityProjection_projected_to_deg(x, y))
        \/ Called("ZeroTransformation::to_deg", <<x, y>>, ZeroTransformation_to_deg(x, y))

CallDegToProjected ==
    \E lon, lat \in Coordinates :
        \/ Called("IdentityProjection::deg_to_projected", <<lon, lat>>,
                  IdentityProjection_deg_to_projected(lon, lat))
        \/ Called("ZeroTransformation::from_deg", <<lon, lat>>,
                  ZeroTransformation_from_deg(lon, lat))

CallCustomProjection ==
    \E m \in MethodCodes, g \in Getters :
        \/ Called("ops::custom_projection", <<m, g>>, ops_custom_projection(m, g))
        \/ Called("methods::custom_projection", <<m, g>>, methods_custom_projection(m, g))

\* The axes and inverse flattenings tried; every divisor is nonzero, so every
\* quotient is finite.
MajorAxes == {Rat(1, 1), Rat(2, 1), Rat(4, 1)}
MinorAxes == {Rat(0, 1), Rat(1, 1), Rat(2, 1), Rat(7, 2), Rat(4, 1), Rat(5, 1)}
InverseFlattenings == {Rat(1, 3), Rat(1, 1), Rat(2, 1), Rat(300, 1), Rat(0 - 4, 1)}

CallEllipsoid ==
    \/ \E a \in MajorAxes, b \in MinorAxes :
          Called("Ellipsoid::from_a_b", <<a, b>>, Ellipsoid_from_a_b(a, b))
    \/ \E a \in MajorAxes, f_inv \in InverseFlattenings :
          Called("Ellipsoid::from_a_f_inv", <<a, f_inv>>, Ellipsoid_from_a_f_inv(a, f_inv))

CallPolarStereographicA ==
    \E lat_orig \in PolarLatitudes, lon_orig \in PolarOrigins :
        \/ \E longitude \in PolarLongitudes, latitude \in PolarLatitudes :
              Called("PolarStereographicA::rad_to_projected",
                     <<lat_orig, lon_orig, longitude, latitude>>,
                     PolarStereographicA_rad_to_projected(lat_orig, lon_orig, longitude,
                                                          latitude))
        \/ \E point \in PolarPoints :
              Called("PolarStereographicA::projected_to_rad", <<lat_orig, lon_orig, point>>,
                     PolarStereographicA_projected_to_rad(lat_orig, lon_orig, point))

\* The base values, rates, scale terms and epochs tried.
HelmertBases == {<<1, 2, 3, 4, 5, 6>>, <<0, 0, 0, 10, 20, 30>>}
HelmertRates == {<<0, 0, 0, 0, 0, 0>>, <<1, 2, 3, 1, 2, 3>>}
HelmertScales == {0, 1}
ReferenceEpochs == {0, 2}
Epochs == {0, 1, 2, 5}

CallAtEpoch ==
    \E base \in HelmertBases, rate \in HelmertRates, dS, ddS \in HelmertScales,
       reference_epoch \in ReferenceEpochs, epoch \in Epochs :
        LET self == HelmertTimeDependent(base, rate, dS, ddS, reference_epoch)
        IN  \/ Called("HelmertPositionVectorTimeDependent::at_epoch", <<self, epoch>>,
                      HelmertPositionVectorTimeDependent_at_epoch(self, epoch))
            \/ Called("HelmertCoordinateFrameTimeDependent::at_epoch", <<self, epoch>>,
                      HelmertCoordinateFrameTimeDependent_at_epoch(self, epoch))

\* The squared eccentricities tried.
SquaredEccentricities == {Rat(0, 1), Rat(1, 2), Rat(1, 1)}

CallLatitudeTerms ==
    \E e_squared \in SquaredEccentricities :
        \/ Called("LambertAzimuthalEqualArea::projected_to_rad", <<e_squared>>,
                  LambertAzimuthalEqualArea_latitude_terms(e_squared))
        \/ Called("AlbersEqualArea::projected_to_rad", <<e_squared>>,
                  AlbersEqualArea_latitude_terms(e_squared))

InitFn ==
    /\ db = [n \in SqlTables |-> NoTable]
    /\ stmt = NoStmt
    /\ nstmts = 0
    /\ pc = "calling"
    /\ ellipsoids = NoOutcome
    /\ gen = NoOutcome
    /\ ellsrc = NoOutcome
    /\ lookup = NoLookup
    /\ call = NoCall
    /\ NetUnused
    /\ GraphUnused

NextFn ==
    \/ CallProjectedToRad
    \/ CallRadToProjected
    \/ CallProjectedToDeg
    \/ CallDegToProjected
    \/ CallCustomProjection
    \/ CallEllipsoid
    \/ CallPolarStereographicA
    \/ CallAtEpoch
    \/ CallLatitudeTerms

SpecFn == InitFn /\ [][NextFn]_vars

\* ------------------------------------------------ C8 (identity projection)

RadianToProjected == {"IdentityProjection::rad_to_projected", "ZeroTransformation::from_rad"}
ProjectedToRadian == {"IdentityProjection::projected_to_rad", "ZeroTransformation::to_rad"}
DegreeWrappers ==
    {"IdentityProjection::projected_to_deg", "IdentityProjection::deg_to_projected",
     "ZeroTransformation::to_deg", "ZeroTransformation::from_deg"}

TimesPiOver180(x) == IF x.m = 0 THEN x ELSE [m |-> x.m, p |-> x.p + 1, nan |-> FALSE]
Times180OverPi(x) == IF x.m = 0 THEN x ELSE [m |-> x.m, p |-> x.p - 1, nan |-> FALSE]

RequiredCodes(method) ==
    IF FindSupported(IMPL_CONV, method) = 0 THEN {}
    ELSE Range(IMPL_CONV[FindSupported(IMPL_CONV, method)].codes)

\* C9: custom_projection returns a projection exactly when the method is one
\* of IMPL_CONV and the getter supplies every parameter code its family needs.
C9_CustomProjection ==
    call.fn \in {"ops::custom_projection", "methods::custom_projection"} =>
        LET method == call.args[1]
            getter == call.args[2]
        IN  call.result = "Some"
                <=> /\ FindSupported(IMPL_CONV, method) # 0
                    /\ RequiredCodes(method) \subseteq getter

\* ---------------------------------------------------- C14 (ellipsoid)

\* C14: every Ellipsoid from_a_b or from_a_f_inv returns has 0 <= e < 1,
\* b = a * (1 - f) and e^2 = 2f - f^2, whatever arguments it was given.
C14_EllipsoidInvariants ==
    call.fn \in {"Ellipsoid::from_a_b", "Ellipsoid::from_a_f_inv"} =>
        LET ell == call.result
            one == Rat(1, 1)
            two_f_minus_f2 == RSub(RMul(Rat(2, 1), ell.f), RMul(ell.f, ell.f))
        IN  /\ ~ell.e.nan
            /\ ~RLess(ell.e.sq, Rat(0, 1))
            /\ RLess(ell.e.sq, one)
            /\ ell.b = RMul(ell.a, RSub(one, ell.f))
            /\ ell.e.sq = two_f_minus_f2
            /\ ell.e_squared = two_f_minus_f2

\* ------------------------------------------- C15 (NaN through the identity)

\* C15 as stated: the inverse of the identity projection, in radians, applied
\* to (NaN, 0) returns (NaN, NaN).
C15_Original ==
    (/\ call.fn = "IdentityProjection::projected_to_rad"
     /\ call.args = <<NaN, Value(0, 0)>>)
    => call.result[1].nan /\ call.result[2].nan

\* C15 amended: the inverse of the identity projection converts each
\* coordinate by itself, so a coordinate of the result is NaN exactly when the
\* same coordinate of the argument is; applied to (NaN, 0) it returns (NaN, 0).
C15_NaNPerCoordinate ==
    call.fn = "IdentityProjection::projected_to_rad" =>
        /\ \A i \in 1..2 : call.result[i].nan <=> call.args[i].nan
        /\ call.args = <<NaN, Value(0, 0)>> => call.result = <<NaN, Value(0, 0)>>

\* The inverse of the identity projection was applied to (NaN, 0).
C15_Witness ==
    /\ call.fn = "IdentityProjection::projected_to_rad"
    /\ call.args = <<NaN, Value(0, 0)>>
    /\ call.result[1].nan

\* ------------------------------------------- C22 (polar stereographic poles)

\* The north-pole and south-pole formulas of the guidance note for Polar
\* Stereographic variant A, forward and reverse.
NorthPoleForward(lon_orig, longitude, latitude) ==
    PolarPoint(TanDeg(45 - latitude \div 2), SinDeg(longitude - lon_orig),
               0 - CosDeg(longitude - lon_orig))
SouthPoleForward(lon_orig, longitude, latitude) ==
    PolarPoint(TanDeg(45 + latitude \div 2), SinDeg(longitude - lon_orig),
               CosDeg(longitude - lon_orig))
NorthPoleReverse(lon_orig, point) ==
    <<lon_orig + Atan2Deg(point[1], 0 - point[2]), 90 - 2 * AtanDeg(point[3])>>
SouthPoleReverse(lon_orig, point) ==
    <<lon_orig + Atan2Deg(point[1], point[2]), 2 * AtanDeg(point[3]) - 90>>

\* C22: an instance with lat0 < 0 uses the south-pole formulas and one with
\* lat0 >= 0 the north-pole formulas, in rad_to_projected and in
\* projected_to_rad alike.
C22_PoleFromSign ==
    /\ call.fn = "PolarStereographicA::rad_to_projected" =>
          call.result = IF call.args[1] < 0
                        THEN SouthPoleForward(call.args[2], call.args[3], call.args[4])
                        ELSE NorthPoleForward(call.args[2], call.args[3], call.args[4])
    /\ call.fn = "PolarStereographicA::projected_to_rad" =>
          call.result = IF call.args[1] < 0
                        THEN SouthPoleReverse(call.args[2], call.args[3])
                        ELSE NorthPoleReverse(call.args[2], call.args[3])

\* ------------------------------------------------ C23 (Helmert at an epoch)

AtEpochCalls ==
    {"HelmertPositionVectorTimeDependent::at_epoch",
     "HelmertCoordinateFrameTimeDependent::at_epoch"}

\* C23: at_epoch(t) of either time-dependent Helmert variant gives each of
\* rX, rY, rZ, tX, tY, tZ as its base value plus its rate times
\* (t - reference_epoch), and M as 1 + dS + ddS * (t - reference_epoch).
C23_AtEpoch ==
    call.fn \in AtEpochCalls =>
        LET self == call.args[1]
            dt == call.args[2] - self.reference_epoch
        IN  /\ call.result.rX = self.rX + self.drX * dt
            /\ call.result.rY = self.rY + self.drY * dt
            /\ call.result.rZ = self.rZ + self.drZ * dt
            /\ call.result.tX = self.tX + self.dtX * dt
            /\ call.result.tY = self.tY + self.dtY * dt
            /\ call.result.tZ = self.tZ + self.dtZ * dt
            /\ call.result.M = 1 + self.dS + self.ddS * dt

\* ------------------------------------------------ C24 (authalic series)

\* The series of the claim at a squared eccentricity x:
\* (x/3 + 31x^2/180 + 517x^3/5040) sin(2 beta) + (23x^2/360 + 251x^3/3780)
\* sin(4 beta) + (761x^3/45360) sin(6 beta).
AuthalicSeries(x) ==
    LET x2 == RMul(x, x)
        x3 == RMul(x2, x)
    IN  << <<RAdd(RAdd(RMul(Rat(1, 3), x), RMul(Rat(31, 180), x2)),
                  RMul(Rat(517, 5040), x3)), 2, 0>>,
           <<RAdd(RMul(Rat(23, 360), x2), RMul(Rat(251, 3780), x3)), 4, 0>>,
           <<RMul(Rat(761, 45360), x3), 6, 0>> >>

\* C24: the Lambert Azimuthal Equal Area inverse and the Albers Equal Area
\* inverse add the same three terms to the authalic latitude, those of the
\* series above.
C24_SameSeries ==
    call.fn \in {"LambertAzimuthalEqualArea::projected_to_rad",
                 "AlbersEqualArea::projected_to_rad"} =>
        call.result = AuthalicSeries(call.args[1])

\* ------------------------------------------------ C25 (column lengths)

\* C25: while the reader has not aborted, all columns of each table of the
\* store hold the same number of entries.
C25_ColumnsSameLength ==
    pc \in {"reading", "loaded"} =>
        \A tn \in SqlTables : Cardinality(ColumnLens(db[tn])) <= 1

\* --------------------------------------- C26 (ellipsoid codes are keys)

\* C26: after a successful build every ellipsoid code that the generated
\* tables store for a CRS is a key of the ELLIPSOIDS map generated from the
\* same registry.
C26_EllipsoidCodesAreKeys ==
    Built => \A c \in DOMAIN gen.val.ELLIPSOIDS :
                gen.val.ELLIPSOIDS[c] \in DOMAIN ellsrc.val

\* A build succeeded and stored the ellipsoid code of a projected CRS.
C26_Witness ==
    /\ Built
    /\ \E c \in DOMAIN gen.val.ELLIPSOIDS :
          /\ c \in DOMAIN gen.val.PROJECTIONS
          /\ gen.val.ELLIPSOIDS[c] \in DOMAIN ellsrc.val
    /\ Cardinality(DOMAIN ellsrc.val) > 1

\* --------------------------------------- C27 (emitted conversions handled)

\* C27: get_coord_transform of a code for which the generated tables hold a
\* conversion type name returns a transform: the runtime handles every name
\* the generator emits.
C27_EmittedConversionsHandled ==
    (/\ lookup.fn = "get_coord_transform"
     /\ gen.kind = "ok"
     /\ ConvTypeOf(lookup.code, gen.val) # None)
    => lookup.result = "Some"

\* ------------------------------------------------ the threads of the cache

InitNet ==
    /\ db = [n \in SqlTables |-> NoTable]
    /\ stmt = NoStmt
    /\ nstmts = 0
    /\ pc = "fetching"
    /\ ellipsoids = NoOutcome
    /\ gen = NoOutcome
    /\ ellsrc = NoOutcome
    /\ lookup = NoLookup
    /\ call = NoCall
    /\ NetUnused
    /\ GraphUnused

NextNet ==
    \/ NetCall
    \/ NetLock
    \/ NetLookup
    \/ NetRequest
    \/ NetExhausted
    \/ NetReturn

SpecNet == InitNet /\ [][NextNet]_vars

\* ------------------------------------------------ C28 (one fetch per url)

C29_ExhaustionIsLocal ==
    \A t \in Threads :
        thread[t].pc = "panicked" => thread[t].tries = RETRY_LIMIT

\* ------------------------------------------------ the expansion of the graph

\* recurse_graph(db, &mut nodes, &mut edges, 4936) on a registry that holds
\* some of the rows of the pools.
InitGraph ==
    /\ db = [n \in SqlTables |-> NoTable]
    /\ stmt = NoStmt
    /\ nstmts = 0
    /\ pc = "expanding"
    /\ ellipsoids = NoOutcome
    /\ gen = NoOutcome
    /\ ellsrc = NoOutcome
    /\ lookup = NoLookup
    /\ call = NoCall
    /\ NetUnused
    /\ \E ko \in SUBSET DOMAIN OperationPool, kc \in SUBSET DOMAIN CrsPool :
          /\ registry = [ops |-> SubSeq2(OperationPool, ko), crs |-> SubSeq2(CrsPool, kc)]
          /\ stack = <<Frame(registry, StartCode)>>
    /\ nodes = {}
    /\ edges = {}
    /\ expansions = 1

NextGraph ==
    \/ GraphOpFrom
    \/ GraphOpTo
    \/ GraphOpsDone
    \/ GraphCrsRow
    \/ GraphReturn

\* The expansion is one sequential computation: while a step is possible, one
\* is taken.
SpecGraph == InitGraph /\ [][NextGraph]_vars /\ WF_vars(NextGraph)

\* ------------------------------------------------ C30 (the expansion ends)

\* The CRS codes of a registry: the sources and targets of its operations and
\* the codes of its CRS rows.
CrsCodes(reg) ==
    {reg.ops[i][j].n : i \in DOMAIN reg.ops, j \in {2, 3}}
    \cup {reg.crs[i][1].n : i \in DOMAIN reg.crs} \cup {StartCode}

\* C30: the expansion ends, and at every moment the calls made are one more
\* than the codes in the node set: apart from the first call, a code is
\* expanded exactly when it is newly added, so there are at most as many
\* calls as distinct CRS codes plus one, and as many calls in progress.
C30_ExpansionEnds ==
    /\ [](pc = "expanding" =>
            /\ expansions = Cardinality(nodes) + 1
            /\ nodes \subseteq CrsCodes(registry)
            /\ Len(stack) <= Cardinality(nodes) + 1
            /\ Len(stack) < MaxDepth)
    /\ (pc = "expanding" ~> stack = <<>>)

\* The expansion of a registry with cycles has ended: the start code is the
\* target of an operation from a code that is itself reached from it, so it
\* was expanded twice, and the three codes were expanded four times in all.
C30_Witness ==
    /\ pc = "expanding"
    /\ stack = <<>>
    /\ StartCode \in nodes
    /\ expansions = 4
    /\ Len(registry.ops) >= 3

====
